---- MODULE Spec2Model ----
(***************************************************************************)
(* Model of the ZeoFill order pipeline (src/supabase_integration.py):      *)
(* paginated fetch of order and fee tables, the left join of fee rows,     *)
(* the per-channel transforms and the concatenation of the channels.       *)
(*                                                                         *)
(* Representation                                                          *)
(*   - a text value is a sequence of one-character strings;                *)
(*   - a cell of a raw row is None, NaN, a number or a text value;         *)
(*   - a number is an integer count of 1/Scale dollars (five decimals);    *)
(*     the float NaN is the integer NaN, the datetime NaT is NaT;          *)
(*   - a DataFrame is [cols, rows]: a set of column names and a sequence   *)
(*     of rows, each a function from cols to cells.                        *)
(***************************************************************************)
EXTENDS Integers, Sequences, FiniteSets, TLC

Scale == 100000
NaN == -2000000000
NaT == 0

None == [k |-> "none"]
NaNCell == [k |-> "nan"]
Num(n) == [k |-> "num", n |-> n]
Str(s) == [k |-> "str", s |-> s]
IsNull(c) == c.k \in {"none", "nan"}

Channels == <<"Shopify", "Walmart", "Amazon">>
SHOPIFY_TABLE == "Shopify_OrderData"
WALMART_TABLE == "Walmart_OrderData"
AMAZON_TABLE == "Amazon_OrderData"
SHOPIFY_FEES_TABLE == "Shopify_Fees"
WALMART_FEES_TABLE == "Walmart_Fees"
AMAZON_FEES_TABLE == "Amazon_Fees"
batch_size == 1000

OrderTable(ch) ==
  CASE ch = "Shopify" -> SHOPIFY_TABLE
    [] ch = "Walmart" -> WALMART_TABLE
    [] OTHER -> AMAZON_TABLE

FeeTable(ch) ==
  CASE ch = "Shopify" -> SHOPIFY_FEES_TABLE
    [] ch = "Walmart" -> WALMART_FEES_TABLE
    [] OTHER -> AMAZON_FEES_TABLE

(***************************************************************************)
(* Text helpers: str.strip, str.upper, str.lower, str.replace, str(x).      *)
(***************************************************************************)
Digits == <<"0", "1", "2", "3", "4", "5", "6", "7", "8", "9">>
LowerLetters == <<"a", "b", "c", "d", "e", "f", "g", "h", "i", "j", "k", "l", "m",
                  "n", "o", "p", "q", "r", "s", "t", "u", "v", "w", "x", "y", "z">>
UpperLetters == <<"A", "B", "C", "D", "E", "F", "G", "H", "I", "J", "K", "L", "M",
                  "N", "O", "P", "Q", "R", "S", "T", "U", "V", "W", "X", "Y", "Z">>

IsDigit(ch) == \E i \in 1..10 : Digits[i] = ch
DigitVal(ch) == (CHOOSE i \in 1..10 : Digits[i] = ch) - 1

UpperChar(ch) ==
  IF \E i \in 1..26 : LowerLetters[i] = ch
  THEN UpperLetters[CHOOSE i \in 1..26 : LowerLetters[i] = ch]
  ELSE ch

LowerChar(ch) ==
  IF \E i \in 1..26 : UpperLetters[i] = ch
  THEN LowerLetters[CHOOSE i \in 1..26 : UpperLetters[i] = ch]
  ELSE ch

Upper(s) == [i \in 1..Len(s) |-> UpperChar(s[i])]
Lower(s) == [i \in 1..Len(s) |-> LowerChar(s[i])]

RECURSIVE LStrip(_)
LStrip(s) == IF s # <<>> /\ Head(s) = " " THEN LStrip(Tail(s)) ELSE s

RECURSIVE RStrip(_)
RStrip(s) ==
  IF s # <<>> /\ s[Len(s)] = " " THEN RStrip(SubSeq(s, 1, Len(s) - 1)) ELSE s

Strip(s) == RStrip(LStrip(s))

\* str.replace(ch, ''): every occurrence of the character is removed
Remove(s, ch) == SelectSeq(s, LAMBDA x : x # ch)

RECURSIVE NatToChars(_)
NatToChars(n) ==
  IF n < 10 THEN <<Digits[n + 1]>>
  ELSE NatToChars(n \div 10) \o <<Digits[(n % 10) + 1]>>

RECURSIVE FracChars(_)
\* the decimals of f/Scale without trailing zeros (0 <= f < Scale)
FracChars(f) ==
  IF f = 0 THEN <<>>
  ELSE <<Digits[((f * 10) \div Scale) + 1]>> \o FracChars((f * 10) % Scale)

Abs(n) == IF n < 0 THEN -n ELSE n

\* str() of a number: Python prints a whole JSON number without decimals,
\* any other with its decimals
NumToChars(n) ==
  (IF n < 0 THEN <<"-">> ELSE <<>>)
  \o NatToChars(Abs(n) \div Scale)
  \o (IF Abs(n) % Scale = 0 THEN <<>> ELSE <<".">> \o FracChars(Abs(n) % Scale))

\* Series.astype(str): None -> 'None', NaN -> 'nan'
AsStr(c) ==
  CASE c.k = "none" -> <<"N", "o", "n", "e">>
    [] c.k = "nan" -> <<"n", "a", "n">>
    [] c.k = "num" -> NumToChars(c.n)
    [] OTHER -> c.s

(***************************************************************************)
(* pd.to_numeric(errors='coerce') and pd.to_datetime(errors='coerce')       *)
(***************************************************************************)
RECURSIVE DigitsVal(_)
DigitsVal(s) ==
  IF s = <<>> THEN 0 ELSE DigitsVal(SubSeq(s, 1, Len(s) - 1)) * 10 + DigitVal(s[Len(s)])

AllDigits(s) == \A i \in 1..Len(s) : IsDigit(s[i])

\* the value of the decimals s in 1/Scale units (five decimals are kept)
FracVal(s) == DigitsVal(SubSeq(s \o <<"0", "0", "0", "0", "0">>, 1, 5))

\* the digits ip before and fp after the decimal point, as a number
ParseDecimal(neg, ip, fp) ==
  IF ~AllDigits(ip) \/ ~AllDigits(fp) \/ Len(ip) + Len(fp) = 0 THEN NaN
  ELSE IF neg THEN -(DigitsVal(ip) * Scale + FracVal(fp))
  ELSE DigitsVal(ip) * Scale + FracVal(fp)

\* the unsigned literal body, whose decimal points are at the positions dots
ParseParts(neg, body, dots) ==
  IF dots = {} THEN ParseDecimal(neg, body, <<>>)
  ELSE IF Cardinality(dots) > 1 THEN NaN
  ELSE ParseDecimal(neg, SubSeq(body, 1, (CHOOSE i \in dots : TRUE) - 1),
                    SubSeq(body, (CHOOSE i \in dots : TRUE) + 1, Len(body)))

ParseBody(neg, body) == ParseParts(neg, body, {i \in 1..Len(body) : body[i] = "."})

ParseSigned(s) ==
  IF s # <<>> /\ Head(s) \in {"-", "+"} THEN ParseBody(Head(s) = "-", Tail(s))
  ELSE ParseBody(FALSE, s)

\* an optionally signed decimal literal, surrounding blanks allowed;
\* anything else does not parse
ParseNum(text) == ParseSigned(Strip(text))

\* pd.to_numeric(cell, errors='coerce')
ToNumeric(c) ==
  CASE IsNull(c) -> NaN
    [] c.k = "num" -> c.n
    [] OTHER -> ParseNum(c.s)

\* Series.fillna(0)
FillNa0(x) == IF x = NaN THEN 0 ELSE x

IsLeap(y) == (y % 4 = 0 /\ y % 100 # 0) \/ y % 400 = 0

DaysIn(y, m) ==
  IF m = 2 THEN (IF IsLeap(y) THEN 29 ELSE 28)
  ELSE IF m \in {4, 6, 9, 11} THEN 30 ELSE 31

DateOf(y, m, d) ==
  IF y >= 1 /\ m \in 1..12 /\ d \in 1..DaysIn(y, m) THEN y * 10000 + m * 100 + d
  ELSE NaT

ParseStrippedDate(s) ==
  IF /\ Len(s) = 10
     /\ s[5] = "-" /\ s[8] = "-"
     /\ \A i \in {1, 2, 3, 4, 6, 7, 9, 10} : IsDigit(s[i])
  THEN DateOf(DigitsVal(SubSeq(s, 1, 4)), DigitsVal(SubSeq(s, 6, 7)),
              DigitsVal(SubSeq(s, 9, 10)))
  ELSE NaT

\* a calendar date YYYY-MM-DD, as the integer YYYYMMDD; NaT otherwise
ParseDate(text) == ParseStrippedDate(Strip(text))

\* pd.to_datetime(cell, errors='coerce'); a number counts nanoseconds
\* from 1970-01-01
ToDatetime(c) ==
  CASE IsNull(c) -> NaT
    [] c.k = "num" -> 19700101
    [] OTHER -> ParseDate(c.s)

(***************************************************************************)
(* Float arithmetic with NaN propagation                                   *)
(***************************************************************************)
FSub(a, b) == IF a = NaN \/ b = NaN THEN NaN ELSE a - b
FAdd(a, b) == IF a = NaN \/ b = NaN THEN NaN ELSE a + b
\* a * (p / 1000), exact for amounts in whole cents
FMul(a, p) == IF a = NaN THEN NaN ELSE (a \div 1000) * p

(***************************************************************************)
(* DataFrames                                                              *)
(***************************************************************************)
NoneDF == [st |-> "none", cols |-> {}, rows |-> <<>>]
RaisedDF == [st |-> "raise", cols |-> {}, rows |-> <<>>]
MkDF(cols, rows) == [st |-> "df", cols |-> cols, rows |-> rows]

\* df.empty
Empty(df) == df.rows = <<>>

Range(s) == {s[i] : i \in DOMAIN s}

\* pd.DataFrame(all_data): the columns are the keys of the rows; a column
\* that holds numbers and no text is a float column, where None is NaN
DataFrame(all_data) ==
  LET cols == UNION {DOMAIN all_data[i] : i \in DOMAIN all_data}
      cell(i, c) == IF c \in DOMAIN all_data[i] THEN all_data[i][c] ELSE None
      floatCols == {c \in cols : /\ \E i \in DOMAIN all_data : cell(i, c).k = "num"
                                 /\ \A i \in DOMAIN all_data : cell(i, c).k # "str"}
  IN MkDF(cols, [i \in DOMAIN all_data |->
                   [c \in cols |-> IF c \in floatCols /\ IsNull(cell(i, c))
                                   THEN NaNCell ELSE cell(i, c)]])

(***************************************************************************)
(* transform_shopify_walmart_data                                          *)
(***************************************************************************)
\* the blank states replaced by 'Unknown'
StateOf(c) ==
  LET s == Upper(Strip(AsStr(c)))
  IN IF s \in {<<>>, <<"N", "A", "N">>, <<"N", "O", "N", "E">>} THEN <<"U", "n", "k", "n", "o", "w", "n">> ELSE s

\* a variant of calc_shopify_shipping_tier: the middle tier ends below 5
calc_shopify_shipping_tier_Below5(w) ==
  IF w = NaN THEN 195 * (Scale \div 10)
  ELSE IF w < 1 * Scale THEN 7 * Scale
  ELSE IF w < 5 * Scale THEN 12 * Scale
  ELSE 195 * (Scale \div 10)

calc_shopify_shipping_tier(w) ==
  IF w = NaN THEN 195 * (Scale \div 10)
  ELSE IF w < 1 * Scale THEN 7 * Scale
  ELSE IF w <= 5 * Scale THEN 12 * Scale
  ELSE 195 * (Scale \div 10)

\* float(text): text that is no number raises, which gives 0.0
calc_shopify_shipping_parsed(w) == IF w = NaN THEN 0 ELSE calc_shopify_shipping_tier(w)

\* float(weight) raises on None: 0.0; float('nan') compares false with
\* everything and falls to the last tier
calc_shopify_shipping(weight) ==
  CASE weight.k = "none" -> 0
    [] weight.k = "nan" -> calc_shopify_shipping_tier(NaN)
    [] weight.k = "num" -> calc_shopify_shipping_tier(weight.n)
    [] OTHER -> calc_shopify_shipping_parsed(ParseNum(weight.s))

WalmartFeeCols(cols) == {"commission_from_sale", "transaction_type"} \subseteq cols

\* the columns transform_shopify_walmart_data reads without a presence test
SWRequired(cols, channel) ==
  {"created_at", "line_total", "line_tax"}
  \cup (IF "order_number" \in cols /\ channel = "Shopify" THEN {"order_number"} ELSE {"order_id"})
  \cup (IF channel = "Shopify" /\ "weight" \in cols THEN {}
        ELSE IF channel = "Walmart" /\ WalmartFeeCols(cols) THEN {}
        ELSE {"line_shipping"})

\* a variant of SWShipping: the Walmart mask tests 'SALE'
SWShipping_SaleMask(r, cols, channel) ==
  IF channel = "Shopify"
  THEN IF "weight" \in cols THEN calc_shopify_shipping(r["weight"])
       ELSE FillNa0(ToNumeric(r["line_shipping"]))
  ELSE IF channel = "Walmart"
  THEN IF WalmartFeeCols(cols)
       THEN IF Upper(AsStr(r["transaction_type"])) = <<"S", "A", "L", "E">>
            THEN FillNa0(ToNumeric(r["commission_from_sale"]))
            ELSE 0
       ELSE FillNa0(ToNumeric(r["line_shipping"]))
  ELSE FillNa0(ToNumeric(r["line_shipping"]))

SWShipping(r, cols, channel) ==
  IF channel = "Shopify"
  THEN IF "weight" \in cols THEN calc_shopify_shipping(r["weight"])
       ELSE FillNa0(ToNumeric(r["line_shipping"]))
  ELSE IF channel = "Walmart"
  THEN IF WalmartFeeCols(cols)
       THEN IF Upper(AsStr(r["transaction_type"])) = <<"A", "D", "J", "M", "N", "T">>
            THEN FillNa0(ToNumeric(r["commission_from_sale"]))
            ELSE 0
       ELSE FillNa0(ToNumeric(r["line_shipping"]))
  ELSE FillNa0(ToNumeric(r["line_shipping"]))

\* a variant of SWPlatformFee: a Shopify row without a fee value falls back
\* to the formula
SWPlatformFee_RowFallback(r, cols, channel, revenue) ==
  IF channel = "Shopify"
  THEN IF "processing_fee" \in cols /\ ToNumeric(r["processing_fee"]) # NaN
       THEN ToNumeric(r["processing_fee"])
       ELSE FAdd(FMul(revenue, 59), 30 * (Scale \div 100))
  ELSE IF channel = "Walmart"
  THEN IF WalmartFeeCols(cols)
       THEN IF Upper(AsStr(r["transaction_type"])) = <<"S", "A", "L", "E">>
            THEN FillNa0(ToNumeric(r["commission_from_sale"]))
            ELSE 0
       ELSE FMul(revenue, 150)
  ELSE 0

SWPlatformFee(r, cols, channel, revenue) ==
  IF channel = "Shopify"
  THEN IF "processing_fee" \in cols THEN FillNa0(ToNumeric(r["processing_fee"]))
       ELSE FAdd(FMul(revenue, 59), 30 * (Scale \div 100))
  ELSE IF channel = "Walmart"
  THEN IF WalmartFeeCols(cols)
       THEN IF Upper(AsStr(r["transaction_type"])) = <<"S", "A", "L", "E">>
            THEN FillNa0(ToNumeric(r["commission_from_sale"]))
            ELSE 0
       ELSE FMul(revenue, 150)
  ELSE 0

\* a variant of Cogs: a misplaced decimal point, 0.04
Cogs_Misplaced(revenue) == FMul(revenue, 40)

\* cogs = revenue * 0.40
Cogs(revenue) == FMul(revenue, 400)

\* gross_profit = net_revenue - cogs
GrossProfit(net_revenue, cogs) == FSub(net_revenue, cogs)

\* a variant of NetProfit: the platform fee is not subtracted
NetProfit_NoFee(gross_profit, shipping_cost, platform_fee) ==
  FSub(gross_profit, shipping_cost)

\* net_profit = gross_profit - shipping_cost - platform_fee
NetProfit(gross_profit, shipping_cost, platform_fee) ==
  FSub(FSub(gross_profit, shipping_cost), platform_fee)

\* a variant of SWRefundAmount: only 'refunded' counts
SWRefundAmount_RefundedOnly(revenue, financial_status) ==
  IF financial_status = <<"r", "e", "f", "u", "n", "d", "e", "d">> THEN revenue ELSE 0

SWRefundAmount(revenue, financial_status) ==
  IF financial_status \in {<<"r", "e", "f", "u", "n", "d", "e", "d">>, <<"p", "a", "r", "t", "i", "a", "l", "l", "y", "_", "r", "e", "f", "u", "n", "d", "e", "d">>} THEN revenue ELSE 0

TextOr(r, cols, c, default) == IF c \in cols THEN Strip(AsStr(r[c])) ELSE default

\* the derived metrics of a row (refund_amount, net_revenue, gross_profit,
\* net_profit) from its refund amount
SWDerived(revenue, cogs, shipping_cost, platform_fee, refund_amount) ==
  [refund_amount |-> refund_amount,
   refund |-> refund_amount,
   net_revenue |-> FSub(revenue, refund_amount),
   gross_profit |-> GrossProfit(FSub(revenue, refund_amount), cogs),
   net_profit |-> NetProfit(GrossProfit(FSub(revenue, refund_amount), cogs),
                            shipping_cost, platform_fee)]

\* the columns computed from revenue and financial_status
SWFinancials(revenue, shipping_cost, platform_fee, financial_status) ==
  [revenue |-> revenue,
   shipping_cost |-> shipping_cost,
   cogs |-> Cogs(revenue),
   platform_fee |-> platform_fee,
   financial_status |-> financial_status]
  @@ SWDerived(revenue, Cogs(revenue), shipping_cost, platform_fee,
               SWRefundAmount(revenue, financial_status))

\* the columns copied from the raw row r; idx is the DataFrame index label,
\* the position of the raw row
SWMapped(r, cols, channel, i) ==
  [idx |-> i,
   date |-> ToDatetime(r["created_at"]),
   order_id |-> IF "order_number" \in cols /\ channel = "Shopify"
                THEN <<"O", "r", "d", "e", "r", " ", "#">> \o Strip(AsStr(r["order_number"]))
                ELSE Strip(AsStr(r["order_id"])),
   tax |-> FillNa0(ToNumeric(r["line_tax"])),
   state |-> IF "state" \in cols THEN StateOf(r["state"]) ELSE <<"U", "n", "k", "n", "o", "w", "n">>,
   products |-> TextOr(r, cols, "product_name", <<"Z", "e", "o", "F", "i", "l", "l", " ", "P", "r", "o", "d", "u", "c", "t">>),
   fulfillment_status |-> TextOr(r, cols, "fulfillment_status", <<"f", "u", "l", "f", "i", "l", "l", "e", "d">>),
   shipping_terms |-> IF "shipping_terms" \in cols
                      THEN Str(Strip(AsStr(r["shipping_terms"]))) ELSE None,
   customer_name |-> TextOr(r, cols, "customer_name", <<"N", "/", "A">>),
   shipping_address |-> TextOr(r, cols, "shipping_address", <<"N", "/", "A">>),
   shipping_city |-> TextOr(r, cols, "shipping_city", <<"N", "/", "A">>),
   shipping_zipcode |-> TextOr(r, cols, "shipping_zipcode", <<"N", "/", "A">>),
   discount |-> IF "discount" \in cols THEN FillNa0(ToNumeric(r["discount"])) ELSE 0,
   channel |-> channel]

SWFinancialStatus(r, cols) ==
  IF "financial_status" \in cols THEN Lower(Strip(AsStr(r["financial_status"])))
  ELSE <<"p", "a", "i", "d">>

SWRowOf(r, cols, channel, i, revenue) ==
  SWMapped(r, cols, channel, i)
  @@ SWFinancials(revenue, SWShipping(r, cols, channel),
                  SWPlatformFee(r, cols, channel, revenue), SWFinancialStatus(r, cols))

\* one row of `transformed`, before the rows are filtered
SWRow(df, channel, i) ==
  SWRowOf(df.rows[i], df.cols, channel, i, ToNumeric(df.rows[i]["line_total"]))

\* a variant of Valid: revenue >= 0
Valid_ZeroRevenue(rec) == rec.date # NaT /\ rec.revenue # NaN /\ rec.revenue >= 0

\* dropna(subset=['date', 'revenue']) and revenue > 0
Valid(rec) == rec.date # NaT /\ rec.revenue # NaN /\ rec.revenue > 0

CanonicalCols(rows) == UNION {DOMAIN rows[i] : i \in DOMAIN rows}

\* a variant of Surviving: the frame is returned even when it is empty
Surviving_Empty(kept) == MkDF(CanonicalCols(kept), kept)

\* the value returned for the rows that are left
Surviving(kept) == IF kept = <<>> THEN NoneDF ELSE MkDF(CanonicalCols(kept), kept)

transform_shopify_walmart_data(df, channel) ==
  IF df.st = "none" \/ Empty(df) THEN NoneDF
  ELSE IF ~(SWRequired(df.cols, channel) \subseteq df.cols) THEN RaisedDF
  ELSE Surviving(SelectSeq([i \in DOMAIN df.rows |-> SWRow(df, channel, i)], Valid))

(***************************************************************************)
(* transform_amazon_data                                                   *)
(***************************************************************************)
\* astype(str).str.replace('$', '').str.replace(',', '').str.strip(),
\* then pd.to_numeric(errors='coerce')
\* a variant of Currency: the thousands separator is not removed
Currency_KeepComma(c) == ToNumeric(Str(Strip(Remove(AsStr(c), "$"))))

Currency(c) == ToNumeric(Str(Strip(Remove(Remove(AsStr(c), "$"), ","))))

status_map(s) ==
  CASE s \in {<<"C", "a", "n", "c", "e", "l", "e", "d">>, <<"C", "a", "n", "c", "e", "l", "l", "e", "d">>} -> <<"r", "e", "f", "u", "n", "d", "e", "d">>
    [] s \in {<<"P", "e", "n", "d", "i", "n", "g">>, <<"U", "n", "s", "h", "i", "p", "p", "e", "d">>} -> <<"p", "e", "n", "d", "i", "n", "g">>
    [] s \in {<<"S", "h", "i", "p", "p", "e", "d">>, <<"D", "e", "l", "i", "v", "e", "r", "e", "d">>} -> <<"p", "a", "i", "d">>
    [] OTHER -> <<"p", "a", "i", "d">>

AmazonRequired == {"purchase-date", "amazon-order-id"}

AmazonShipping(r, cols) ==
  IF "shipping_label_cost" \in cols THEN FillNa0(Currency(r["shipping_label_cost"]))
  ELSE IF "shipping-price" \in cols THEN FillNa0(Currency(r["shipping-price"]))
  ELSE 0

\* a variant of AmazonPlatformFee: the fallback is the referral fee alone,
\* as for Walmart
AmazonPlatformFee_ReferralOnly(r, cols, revenue) ==
  IF "shop_fees" \in cols THEN FillNa0(Currency(r["shop_fees"]))
  ELSE FMul(revenue, 150)

AmazonPlatformFee(r, cols, revenue) ==
  IF "shop_fees" \in cols THEN FillNa0(Currency(r["shop_fees"]))
  ELSE FAdd(FMul(revenue, 150), 99 * (Scale \div 100))

AmazonDiscount(r, cols) ==
  (IF "item-promotion-discount" \in cols
   THEN FillNa0(Currency(r["item-promotion-discount"])) ELSE 0)
  + (IF "ship-promotion-discount" \in cols
     THEN FillNa0(Currency(r["ship-promotion-discount"])) ELSE 0)

AmazonRefundAmount(revenue, financial_status) ==
  IF financial_status = <<"r", "e", "f", "u", "n", "d", "e", "d">> THEN revenue ELSE 0

\* a variant of AmazonNetRevenue: the discount is not subtracted
AmazonNetRevenue_NoDiscount(revenue, refund_amount, total_discount) ==
  FSub(revenue, refund_amount)

\* net_revenue = revenue - refund_amount - total_discount
AmazonNetRevenue(revenue, refund_amount, total_discount) ==
  FSub(FSub(revenue, refund_amount), total_discount)

AmazonDerived(revenue, cogs, shipping_cost, platform_fee, refund_amount, total_discount) ==
  [refund_amount |-> refund_amount,
   refund |-> refund_amount,
   discount |-> total_discount,
   net_revenue |-> AmazonNetRevenue(revenue, refund_amount, total_discount),
   gross_profit |-> GrossProfit(AmazonNetRevenue(revenue, refund_amount, total_discount),
                                cogs),
   net_profit |-> NetProfit(GrossProfit(AmazonNetRevenue(revenue, refund_amount,
                                                         total_discount), cogs),
                            shipping_cost, platform_fee)]

AmazonFinancials(revenue, shipping_cost, platform_fee, financial_status, total_discount) ==
  [revenue |-> revenue,
   shipping_cost |-> shipping_cost,
   cogs |-> Cogs(revenue),
   platform_fee |-> platform_fee,
   financial_status |-> financial_status]
  @@ AmazonDerived(revenue, Cogs(revenue), shipping_cost, platform_fee,
                   AmazonRefundAmount(revenue, financial_status), total_discount)

AmazonMapped(r, cols, i) ==
  [idx |-> i,
   date |-> ToDatetime(r["purchase-date"]),
   order_id |-> Strip(AsStr(r["amazon-order-id"])),
   tax |-> (IF "item-tax" \in cols THEN FillNa0(Currency(r["item-tax"])) ELSE 0)
           + (IF "shipping-tax" \in cols THEN FillNa0(Currency(r["shipping-tax"])) ELSE 0),
   state |-> IF "ship-state" \in cols THEN StateOf(r["ship-state"]) ELSE <<"U", "n", "k", "n", "o", "w", "n">>,
   products |-> TextOr(r, cols, "product-name", <<"A", "m", "a", "z", "o", "n", " ", "P", "r", "o", "d", "u", "c", "t">>),
   order_status |-> TextOr(r, cols, "order-status", <<"S", "h", "i", "p", "p", "e", "d">>),
   customer_name |-> TextOr(r, cols, "recipient-name", <<"N", "/", "A">>),
   shipping_address |-> TextOr(r, cols, "ship-address", <<"N", "/", "A">>),
   shipping_city |-> TextOr(r, cols, "ship-city", <<"N", "/", "A">>),
   shipping_zipcode |-> TextOr(r, cols, "ship-postal-code", <<"N", "/", "A">>),
   channel |-> "Amazon"]

AmazonFinancialStatus(r, cols) ==
  IF "order-status" \in cols THEN status_map(Strip(AsStr(r["order-status"])))
  ELSE <<"p", "a", "i", "d">>

AmazonRowOf(r, cols, i, revenue) ==
  AmazonMapped(r, cols, i)
  @@ AmazonFinancials(revenue, AmazonShipping(r, cols), AmazonPlatformFee(r, cols, revenue),
                      AmazonFinancialStatus(r, cols), AmazonDiscount(r, cols))

\* one row of `transformed`, before the rows are filtered
AmazonRow(df, i) ==
  AmazonRowOf(df.rows[i], df.cols, i,
              IF "item-price" \in df.cols THEN Currency(df.rows[i]["item-price"]) ELSE 0)

transform_amazon_data(df) ==
  IF df.st = "none" \/ Empty(df) THEN NoneDF
  ELSE IF ~(AmazonRequired \subseteq df.cols) THEN RaisedDF
  ELSE Surviving(SelectSeq([i \in DOMAIN df.rows |-> AmazonRow(df, i)], Valid))

(***************************************************************************)
(* The left join: df_raw.merge(df_fees, on=key, how='left',                *)
(*                             suffixes=('', '_fee'))                      *)
(***************************************************************************)
\* the name of a fee column in the merged frame
FeeColName(c, leftCols) == IF c \in leftCols THEN c \o "_fee" ELSE c

\* pandas matches keys by value; NaN/None keys match each other
KeyEq(a, b) == IF IsNull(a) \/ IsNull(b) THEN IsNull(a) /\ IsNull(b) ELSE a = b

\* the concatenation of a sequence of sequences (by halves, so that the
\* evaluation stays shallow on long inputs)
RECURSIVE Flatten(_)
Flatten(ss) ==
  IF ss = <<>> THEN <<>>
  ELSE IF Len(ss) = 1 THEN ss[1]
  ELSE LET h == Len(ss) \div 2
       IN Flatten(SubSeq(ss, 1, h)) \o Flatten(SubSeq(ss, h + 1, Len(ss)))

\* a left row with the cells of fee row f, or with NaN when f is no row
JoinedRow(l, f, leftCols, feeCols) ==
  [n \in leftCols \cup {FeeColName(c, leftCols) : c \in feeCols} |->
     IF n \in leftCols THEN l[n]
     ELSE IF f = <<>> THEN NaNCell
     ELSE f[CHOOSE c \in feeCols : FeeColName(c, leftCols) = n]]

\* a variant of JoinedRows: one joined row per order row, with its first
\* fee row
JoinedRows_First(l, matches, leftCols, feeCols) ==
  <<JoinedRow(l, IF matches = <<>> THEN <<>> ELSE matches[1], leftCols, feeCols)>>

\* the rows of the joined frame for the left row l and its fee rows
JoinedRows(l, matches, leftCols, feeCols) ==
  IF matches = <<>> THEN <<JoinedRow(l, <<>>, leftCols, feeCols)>>
  ELSE [j \in DOMAIN matches |-> JoinedRow(l, matches[j], leftCols, feeCols)]

MatchesOf(l, right, key) == SelectSeq(right.rows, LAMBDA f : KeyEq(l[key], f[key]))

Merge(left, right, key) ==
  IF key \notin left.cols \/ key \notin right.cols THEN RaisedDF
  ELSE MkDF(left.cols \cup {FeeColName(c, left.cols) : c \in right.cols \ {key}},
            Flatten([i \in DOMAIN left.rows |->
                       JoinedRows(left.rows[i], MatchesOf(left.rows[i], right, key),
                                  left.cols, right.cols \ {key})]))

(***************************************************************************)
(* The fetch functions as a state machine.  fetch_all_order_data calls     *)
(* fetch_shopify_data, fetch_walmart_data and fetch_amazon_data in turn;   *)
(* each asks for a client, pages through its order table, calls            *)
(* fetch_fee_data (a client and a pagination loop of its own), merges and  *)
(* transforms.  One action is one interaction with the data source plus    *)
(* the code that runs up to the next interaction.                          *)
(***************************************************************************)
VARIABLES
  tables,        \* the data source: table name -> sequence of rows
  ci,            \* index in Channels of the channel being fetched
  pc,            \* position in the fetch of that channel
  all_data,      \* all_data of the order loop
  offset,        \* offset of the order loop
  fee_all_data,  \* all_data of fetch_fee_data
  fee_offset,    \* offset of fetch_fee_data
  df_orders,     \* channel -> pd.DataFrame(all_data) in its fetch function
  df_fees,       \* channel -> the value fetch_fee_data returned to it
  df_raw,        \* channel -> the frame its fetch function gave the transform
  result,        \* channel -> value returned by its fetch function
  combined,      \* the value fetch_all_order_data returned
  requests,      \* history: table name -> offsets requested, in order
  outcome,       \* history: table name -> how its fetch ended
  faults,        \* history: the number of requests the source has failed
  SUPABASE_AVAILABLE,  \* the dashboard could import supabase_integration
  sessions,      \* the browser sessions of the dashboard
  secrets,       \* st.secrets: the dashboard_password, if it has one
  password_correct,  \* session -> st.session_state['password_correct'], if set
  password,      \* session -> st.session_state['password'], if set
  cache_cleared, \* session -> st.session_state has 'cache_cleared'
  data_loaded,   \* session -> st.session_state has 'data_loaded'
  df_full,       \* session -> st.session_state.get('df_full')
  loader,        \* the session whose run of main() called the fetch last
  now,           \* the clock of the cache, in seconds
  cache,         \* channel -> the entry of st.cache_data for its fetch function
  last_done,     \* history: channel -> value and time of its last completed call
  cleared_since, \* history: channel -> the cache was cleared after that call
  served,        \* history: channel -> how its latest call was answered
  authenticated_by,  \* history: session -> the entry that set password_correct
  fetch_calls,   \* history: session -> calls of fetch_all_order_data
  loads          \* history: session -> times df_full was stored

vars == <<tables, ci, pc, all_data, offset, fee_all_data, fee_offset,
          df_orders, df_fees, df_raw, result, combined, requests, outcome,
          faults, SUPABASE_AVAILABLE, sessions, secrets, password_correct,
          password, cache_cleared, data_loaded, df_full, loader, now, cache,
          last_done, cleared_since, served, authenticated_by, fetch_calls, loads>>

\* the state of the dashboard and of its sessions
session == <<SUPABASE_AVAILABLE, sessions, secrets, password_correct, password,
             cache_cleared, data_loaded, df_full, loader, now, authenticated_by,
             fetch_calls, loads>>

\* the cache of the fetch functions and its history
cached == <<cache, last_done, cleared_since, served>>

\* the fetch of one run of main(): what fetch_all_order_data and the
\* functions it calls hold
fetching == <<ci, pc, all_data, offset, fee_all_data, fee_offset, df_orders,
              df_fees, df_raw, result, combined, requests, outcome>>

TableNames == {SHOPIFY_TABLE, WALMART_TABLE, AMAZON_TABLE,
               SHOPIFY_FEES_TABLE, WALMART_FEES_TABLE, AMAZON_FEES_TABLE}

ChannelSet == {"Shopify", "Walmart", "Amazon"}

\* the source fails at most MaxFaults times in a run
MaxFaults == 1

\* the source answers (ok) or fails
Source(ok) ==
  /\ ~ok => faults < MaxFaults
  /\ faults' = IF ok THEN faults ELSE faults + 1

Pending == [st |-> "pending", cols |-> {}, rows |-> <<>>]

chan == Channels[ci]

Min(a, b) == IF a < b THEN a ELSE b

\* a variant of Page: the range ends one row later
Page_Inclusive(name, off) ==
  SubSeq(tables[name], off + 1, Min(off + batch_size + 1, Len(tables[name])))

\* client.table(name).select('*').range(off, off + batch_size - 1).execute():
\* the rows of the table from off on, at most batch_size of them
Page(name, off) ==
  SubSeq(tables[name], off + 1, Min(off + batch_size, Len(tables[name])))

\* a variant of Caught: the exception is not caught
Caught_Not(df) == df

\* the value a fetch function returns for what its body produced:
\* `except Exception` turns a raised exception into None
Caught(df) == IF df.st = "raise" THEN NoneDF ELSE df

\* @st.cache_data(ttl=300) on fetch_shopify_data, fetch_walmart_data and
\* fetch_amazon_data
ttl == 300

\* a variant of Expired: an entry never expires
Expired_Never(entry) == FALSE

\* the entry stored at entry.at has outlived the ttl
Expired(entry) == now - entry.at >= ttl

\* the entries of the cache of channel c that a call is answered from
Fresh(c) == {entry \in cache[c] : ~Expired(entry)}

\* fetch_all_order_data gets r from the fetch function of the current
\* channel and goes on with the next channel, or concatenates after the last
Advance(r) ==
  /\ result' = [result EXCEPT ![chan] = r]
  /\ IF ci < Len(Channels)
     THEN ci' = ci + 1 /\ pc' = "client"
     ELSE ci' = ci /\ pc' = "concat"

\* the body of the fetch function of the current channel returns r:
\* st.cache_data stores r, whatever it is, and the caller gets it
Return(r) ==
  /\ Advance(r)
  /\ cache' = [cache EXCEPT ![chan] = {[value |-> r, at |-> now]}]
  /\ last_done' = [last_done EXCEPT ![chan] = {[value |-> r, at |-> now]}]
  /\ cleared_since' = [cleared_since EXCEPT ![chan] = FALSE]
  /\ served' = [served EXCEPT ![chan] = "source"]

\* a variant of More: the loop stops at an empty page only
More_UntilEmpty(data) == data # <<>>

\* the loop goes on after a page that is not empty and not short
More(data) == data # <<>> /\ Len(data) >= batch_size

\* the call of a channel's fetch function: st.cache_data answers it from a
\* fresh entry; without one the body runs, up to get_supabase_client()
GetClient(ok) ==
  /\ pc = "client"
  /\ IF Fresh(chan) # {}
     THEN /\ ok
          /\ Advance((CHOOSE entry \in Fresh(chan) : TRUE).value)
          /\ served' = [served EXCEPT ![chan] = "cache"]
          /\ UNCHANGED <<cache, last_done, cleared_since>>
          /\ UNCHANGED <<all_data, offset, outcome, faults>>
     ELSE /\ Source(ok)
          /\ all_data' = <<>>
          /\ offset' = 0
          /\ IF ok
             THEN /\ pc' = "page"
                  /\ UNCHANGED <<ci, result, outcome>>
                  /\ UNCHANGED cached
             ELSE /\ Return(NoneDF)
                  /\ outcome' = [outcome EXCEPT ![OrderTable(chan)] = "no_client"]
  /\ UNCHANGED session
  /\ UNCHANGED <<tables, fee_all_data, fee_offset, df_orders, df_fees, df_raw,
                 combined, requests>>

\* one iteration of the order loop; when the loop ends, the code up to the
\* call of fetch_fee_data
PageRequest(ok) ==
  /\ Source(ok)
  /\ pc = "page"
  /\ requests' = [requests EXCEPT ![OrderTable(chan)] = Append(@, offset)]
  /\ IF ~ok
     THEN /\ Return(Caught(RaisedDF))
          /\ outcome' = [outcome EXCEPT ![OrderTable(chan)] = "request_failed"]
          /\ UNCHANGED <<all_data, offset, df_orders>>
     ELSE LET data == Page(OrderTable(chan), offset)
              more == More(data)
              got == all_data \o data
          IN /\ all_data' = got
             /\ IF more
                THEN /\ offset' = offset + batch_size
                     /\ UNCHANGED <<ci, pc, result, outcome, df_orders>>
                     /\ UNCHANGED cached
                ELSE /\ offset' = offset
                     /\ outcome' = [outcome EXCEPT ![OrderTable(chan)] = "fetched"]
                     /\ IF got = <<>>
                        THEN Return(NoneDF) /\ UNCHANGED df_orders
                        ELSE /\ df_orders' = [df_orders EXCEPT ![chan] = DataFrame(got)]
                             /\ pc' = "fee_client"
                             /\ UNCHANGED <<ci, result>>
                             /\ UNCHANGED cached
  /\ UNCHANGED session
  /\ UNCHANGED <<tables, fee_all_data, fee_offset, df_fees, df_raw, combined>>

\* get_supabase_client() in fetch_fee_data
FeeGetClient(ok) ==
  /\ Source(ok)
  /\ pc = "fee_client"
  /\ fee_all_data' = <<>>
  /\ fee_offset' = 0
  /\ IF ok
     THEN pc' = "fee_page" /\ UNCHANGED <<df_fees, outcome>>
     ELSE /\ df_fees' = [df_fees EXCEPT ![chan] = NoneDF]
          /\ pc' = "merge"
          /\ outcome' = [outcome EXCEPT ![FeeTable(chan)] = "no_client"]
  /\ UNCHANGED cached
  /\ UNCHANGED session
  /\ UNCHANGED <<tables, ci, all_data, offset, df_orders, df_raw, result,
                 combined, requests>>

\* one iteration of the loop of fetch_fee_data; when the loop ends, its return
FeePageRequest(ok) ==
  /\ Source(ok)
  /\ pc = "fee_page"
  /\ requests' = [requests EXCEPT ![FeeTable(chan)] = Append(@, fee_offset)]
  /\ IF ~ok
     THEN /\ df_fees' = [df_fees EXCEPT ![chan] = Caught(RaisedDF)]
          /\ pc' = "merge"
          /\ outcome' = [outcome EXCEPT ![FeeTable(chan)] = "request_failed"]
          /\ UNCHANGED <<fee_all_data, fee_offset>>
     ELSE LET data == Page(FeeTable(chan), fee_offset)
              more == More(data)
              got == fee_all_data \o data
          IN /\ fee_all_data' = got
             /\ IF more
                THEN /\ fee_offset' = fee_offset + batch_size
                     /\ UNCHANGED <<pc, df_fees, outcome>>
                ELSE /\ fee_offset' = fee_offset
                     /\ outcome' = [outcome EXCEPT ![FeeTable(chan)] = "fetched"]
                     /\ df_fees' = [df_fees EXCEPT
                                       ![chan] = IF got = <<>> THEN NoneDF
                                                 ELSE DataFrame(got)]
                     /\ pc' = "merge"
  /\ UNCHANGED cached
  /\ UNCHANGED session
  /\ UNCHANGED <<tables, ci, all_data, offset, df_orders, df_raw, result, combined>>

\* the merge of a channel's fetch function
\* a variant of ShopifyMergeKey: the key is always order_id
ShopifyMergeKey_OrderId(orders, fees) == "order_id"

ShopifyMergeKey(orders, fees) ==
  IF "order_number" \in orders.cols /\ "order_number" \in fees.cols
  THEN "order_number"
  ELSE "order_id"

\* a variant of MergeFees: without fee rows there is no frame
MergeFees_NeedsFees(channel, orders, fees) ==
  IF fees.st = "none" \/ Empty(fees) THEN NoneDF
  ELSE Merge(orders, fees, IF channel = "Amazon" THEN "amazon-order-id" ELSE "order_id")

MergeFees(channel, orders, fees) ==
  IF fees.st = "none" \/ Empty(fees) THEN orders
  ELSE IF channel = "Shopify" THEN Merge(orders, fees, ShopifyMergeKey(orders, fees))
  ELSE IF channel = "Walmart"
  THEN IF "order_id" \in fees.cols THEN Merge(orders, fees, "order_id") ELSE orders
  ELSE IF "amazon-order-id" \in fees.cols
       THEN Merge(orders, fees, "amazon-order-id") ELSE orders

Transform(channel, df) ==
  IF df.st = "raise" THEN RaisedDF
  ELSE IF channel = "Amazon" THEN transform_amazon_data(df)
  ELSE transform_shopify_walmart_data(df, channel)

\* the transform of the merged frame and the return
TransformAndReturn(merged) ==
  /\ df_raw' = [df_raw EXCEPT ![chan] = merged]
  /\ Return(Caught(Transform(chan, merged)))

\* after fetch_fee_data returned: merge, transform, return
MergeTransform ==
  /\ pc = "merge"
  /\ TransformAndReturn(MergeFees(chan, df_orders[chan], df_fees[chan]))
  /\ UNCHANGED session
  /\ UNCHANGED <<tables, all_data, offset, fee_all_data, fee_offset, df_orders,
                 df_fees, combined, requests, outcome, faults>>

\* pd.concat(dataframes, ignore_index=True): the rows are numbered anew and
\* a column missing from one frame is NaN in its rows
ConcatRows(rows, cols) ==
  MkDF(cols, [i \in DOMAIN rows |->
                [c \in cols |-> IF c = "idx" THEN i
                                ELSE IF c \in DOMAIN rows[i] THEN rows[i][c]
                                ELSE NaN]])

\* a variant of Concat: the frames are taken last to first
Concat_LastFirst(frames) ==
  ConcatRows(Flatten([i \in DOMAIN frames |-> frames[Len(frames) + 1 - i].rows]),
             UNION {frames[i].cols : i \in DOMAIN frames})

Concat(frames) ==
  ConcatRows(Flatten([i \in DOMAIN frames |-> frames[i].rows]),
             UNION {frames[i].cols : i \in DOMAIN frames})

\* the frames fetch_all_order_data appended to `dataframes`
Combine(dataframes) == IF dataframes # <<>> THEN Concat(dataframes) ELSE NoneDF

\* the end of fetch_all_order_data
CombineAll ==
  /\ pc = "concat"
  /\ combined' = Combine(SelectSeq([i \in DOMAIN Channels |-> result[Channels[i]]],
                                   LAMBDA d : d.st = "df" /\ ~Empty(d)))
  /\ pc' = "done"
  /\ UNCHANGED cached
  /\ UNCHANGED session
  /\ UNCHANGED <<tables, ci, all_data, offset, fee_all_data, fee_offset,
                 df_orders, df_fees, df_raw, result, requests, outcome, faults>>

(***************************************************************************)
(* The dashboard: main() loads the data once per session.                  *)
(***************************************************************************)
\* generate_sample_data(): rows of every channel over the last 210 days,
\* here one row per channel with values in the ranges the generator draws from
SampleRow(channel, revenue, cogs, shipping_cost, platform_fee) ==
  [date |-> 20240601, channel |-> channel, revenue |-> revenue, cogs |-> cogs,
   shipping_cost |-> shipping_cost, platform_fee |-> platform_fee,
   financial_status |-> <<"p", "a", "i", "d">>, state |-> <<"C", "A">>, products |-> <<"T", "u", "r", "f", " ", "R", "a", "k", "e">>,
   refund_amount |-> 0, net_revenue |-> revenue, gross_profit |-> revenue - cogs,
   net_profit |-> revenue - cogs - shipping_cost - platform_fee]

generate_sample_data ==
  MkDF({"date", "channel", "revenue", "cogs", "shipping_cost", "platform_fee",
        "financial_status", "state", "products", "refund_amount", "net_revenue",
        "gross_profit", "net_profit"},
       <<SampleRow("Shopify", 100 * Scale, 40 * Scale, 10 * Scale,
                   FMul(100 * Scale, 29) + 30 * (Scale \div 100)),
         SampleRow("Walmart", 100 * Scale, 45 * Scale, 10 * Scale, FMul(100 * Scale, 150)),
         SampleRow("Amazon", 100 * Scale, 40 * Scale, 10 * Scale,
                   FMul(100 * Scale, 150) + 99 * (Scale \div 100))>>)

\* a variant of LiveOrSample: the sample data is never used
LiveOrSample_Never(df) == df

\* df_full for what fetch_all_order_data returned
LiveOrSample(df) == IF df.st = "none" \/ Empty(df) THEN generate_sample_data ELSE df

\* the texts a visitor types into the password field
Passwords == {<<"z", "e", "o", "f", "i", "l", "l", "2", "0", "2", "4">>, <<"s", "3", "c", "r", "e", "t">>, <<"g", "u", "e", "s", "s">>}

\* a variant of correct_password: the fallback counts whatever the secrets
\* hold
correct_password_Fallback == {<<"z", "e", "o", "f", "i", "l", "l", "2", "0", "2", "4">>} \cup secrets

\* correct_password in password_entered: the dashboard_password of
\* st.secrets, the fallback without one
correct_password == IF secrets # {} THEN secrets ELSE {<<"z", "e", "o", "f", "i", "l", "l", "2", "0", "2", "4">>}

\* check_password() returns True
Validated(s) == TRUE \in password_correct[s]

\* password_entered(), the on_change callback of the password field, for
\* the text p
EnterPassword(s, p) ==
  /\ ~Validated(s)
  /\ p \notin password[s]
  /\ IF p \in correct_password
     THEN /\ password_correct' = [password_correct EXCEPT ![s] = {TRUE}]
          /\ password' = [password EXCEPT ![s] = {}]
          /\ data_loaded' = [data_loaded EXCEPT ![s] = FALSE]
          /\ authenticated_by' = [authenticated_by EXCEPT ![s] = {p}]
     ELSE /\ password_correct' = [password_correct EXCEPT ![s] = {FALSE}]
          /\ password' = [password EXCEPT ![s] = {p}]
          /\ UNCHANGED <<data_loaded, authenticated_by>>
  /\ UNCHANGED <<SUPABASE_AVAILABLE, sessions, secrets, cache_cleared, df_full,
                 loader, now, fetch_calls, loads>>
  /\ UNCHANGED <<tables, faults>>
  /\ UNCHANGED fetching
  /\ UNCHANGED cached

\* the "Try Again" button under the error message
TryAgain(s) ==
  /\ password_correct[s] = {FALSE}
  /\ password_correct' = [password_correct EXCEPT ![s] = {}]
  /\ UNCHANGED <<SUPABASE_AVAILABLE, sessions, secrets, password, cache_cleared,
                 data_loaded, df_full, loader, now, authenticated_by, fetch_calls,
                 loads>>
  /\ UNCHANGED <<tables, faults>>
  /\ UNCHANGED fetching
  /\ UNCHANGED cached

\* main() after check_password(): st.cache_data.clear() on the first run
\* of the session that gets there
ClearCache(s) ==
  /\ Validated(s)
  /\ ~cache_cleared[s]
  /\ cache' = [c \in ChannelSet |-> {}]
  /\ cleared_since' = [c \in ChannelSet |-> last_done[c] # {}]
  /\ cache_cleared' = [cache_cleared EXCEPT ![s] = TRUE]
  /\ UNCHANGED <<last_done, served>>
  /\ UNCHANGED <<SUPABASE_AVAILABLE, sessions, secrets, password_correct, password,
                 data_loaded, df_full, loader, now, authenticated_by, fetch_calls,
                 loads>>
  /\ UNCHANGED <<tables, faults>>
  /\ UNCHANGED fetching

\* df_full is None or df_full.empty
Missing(df) == df.st = "none" \/ Empty(df)

\* a variant of NeedsLoad: every run of main() loads
NeedsLoad_Always(s) == TRUE

\* main() has to load: the session has no 'data_loaded', or no df_full
NeedsLoad(s) == ~data_loaded[s] \/ Missing(df_full[s])

\* the seconds that pass between two runs of main(), around the ttl
Elapsed == {0, ttl - 1, ttl + 1}

\* main() in a session that has to load, up to the call of
\* fetch_all_order_data; d seconds have passed since the last load began
StartLoad(s, d) ==
  /\ Validated(s)
  /\ cache_cleared[s]
  /\ NeedsLoad(s)
  /\ pc \in {"start", "dashboard"}
  /\ d # 0 => \E c \in ChannelSet : cache[c] # {}
  /\ now' = now + d
  /\ loader' = s
  /\ IF SUPABASE_AVAILABLE
     THEN /\ pc' = "client"
          /\ ci' = 1
          /\ all_data' = <<>>
          /\ offset' = 0
          /\ fee_all_data' = <<>>
          /\ fee_offset' = 0
          /\ df_orders' = [c \in ChannelSet |-> NoneDF]
          /\ df_fees' = [c \in ChannelSet |-> NoneDF]
          /\ df_raw' = [c \in ChannelSet |-> NoneDF]
          /\ result' = [c \in ChannelSet |-> Pending]
          /\ combined' = Pending
          /\ requests' = [n \in TableNames |-> <<>>]
          /\ outcome' = [n \in TableNames |-> "not_run"]
          /\ served' = [c \in ChannelSet |-> "not_called"]
          /\ fetch_calls' = [fetch_calls EXCEPT ![s] = @ + 1]
     ELSE /\ pc' = "offline"
          /\ UNCHANGED <<ci, all_data, offset, fee_all_data, fee_offset, df_orders,
                         df_fees, df_raw, result, combined, requests, outcome>>
          /\ UNCHANGED <<served, fetch_calls>>
  /\ UNCHANGED <<cache, last_done, cleared_since>>
  /\ UNCHANGED <<SUPABASE_AVAILABLE, sessions, secrets, password_correct, password,
                 cache_cleared, data_loaded, df_full, authenticated_by, loads>>
  /\ UNCHANGED <<tables, faults>>

\* main() after fetch_all_order_data returned, or without calling it:
\* df_full is stored in the session
LoadData(s) ==
  /\ pc \in {"done", "offline"}
  /\ loader = s
  /\ df_full' = [df_full EXCEPT ![s] = IF SUPABASE_AVAILABLE THEN LiveOrSample(combined)
                                       ELSE generate_sample_data]
  /\ data_loaded' = [data_loaded EXCEPT ![s] = TRUE]
  /\ loads' = [loads EXCEPT ![s] = @ + 1]
  /\ pc' = "dashboard"
  /\ UNCHANGED <<tables, ci, all_data, offset, fee_all_data, fee_offset, df_orders,
                 df_fees, df_raw, result, combined, requests, outcome, faults>>
  /\ UNCHANGED <<SUPABASE_AVAILABLE, sessions, secrets, password_correct, password,
                 cache_cleared, loader, now, authenticated_by, fetch_calls>>
  /\ UNCHANGED cached

\* a later run of main() in a session that has its data (a filter change,
\* a tab switch, an export): df_full is read from the session
Rerun(s) ==
  /\ Validated(s)
  /\ cache_cleared[s]
  /\ ~NeedsLoad(s)
  /\ UNCHANGED vars

(***************************************************************************)
(* The data source at the start of a run.  Small tables draw their rows    *)
(* from a catalogue of sample rows that covers the cases of the            *)
(* transforms; large tables of plain rows exercise the pagination.         *)
(***************************************************************************)
MaxRows == 2
MaxFeeRows == 2
MaxPages == 2

\* order rows of Shopify and Walmart; Shopify rows carry a weight
SWSample(channel, k) ==
  LET base ==
        CASE k = 1 -> [order_id |-> Str(<<"1", "0", "0", "1">>), created_at |-> Str(<<"2", "0", "2", "4", "-", "0", "1", "-", "0", "5">>),
                       line_total |-> Str(<<"1", "0", "0", ".", "0", "0">>), line_tax |-> Str(<<"5", ".", "0", "0">>),
                       line_shipping |-> Str(<<"4", ".", "0", "0">>), financial_status |-> Str(<<"p", "a", "i", "d">>),
                       discount |-> Str(<<"1", "0", ".", "0", "0">>)]
          [] k = 2 -> [order_id |-> Str(<<"1", "0", "0", "2">>), created_at |-> Str(<<"2", "0", "2", "4", "-", "0", "2", "-", "2", "9">>),
                       line_total |-> Num(50 * Scale), line_tax |-> None,
                       line_shipping |-> Str(<<"a", "b", "c">>), financial_status |-> Str(<<" ", "R", "e", "f", "u", "n", "d", "e", "d", " ">>),
                       discount |-> None]
          [] k = 3 -> [order_id |-> Str(<<"1", "0", "0", "3">>), created_at |-> Str(<<"2", "0", "2", "3", "-", "0", "2", "-", "2", "9">>),
                       line_total |-> Str(<<"2", "0", ".", "0", "0">>), line_tax |-> Str(<<"1", ".", "0", "0">>),
                       line_shipping |-> Str(<<"2", ".", "0", "0">>), financial_status |-> Str(<<"p", "a", "i", "d">>),
                       discount |-> Str(<<"0">>)]
          [] k = 4 -> [order_id |-> Str(<<"1", "0", "0", "4">>), created_at |-> Str(<<"2", "0", "2", "4", "-", "0", "3", "-", "0", "1">>),
                       line_total |-> Str(<<"a", "b", "c">>), line_tax |-> Str(<<"1", ".", "0", "0">>),
                       line_shipping |-> Str(<<"2", ".", "0", "0">>),
                       financial_status |-> Str(<<"p", "a", "r", "t", "i", "a", "l", "l", "y", "_", "r", "e", "f", "u", "n", "d", "e", "d">>),
                       discount |-> Str(<<"1", ".", "0", "0">>)]
          [] k = 5 -> [order_id |-> Str(<<"1", "0", "0", "5">>), created_at |-> Str(<<"2", "0", "2", "4", "-", "0", "3", "-", "0", "2">>),
                       line_total |-> Str(<<"-", "5", ".", "0", "0">>), line_tax |-> Str(<<"0", ".", "2", "5">>),
                       line_shipping |-> None, financial_status |-> Str(<<"r", "e", "f", "u", "n", "d", "e", "d">>),
                       discount |-> None]
          [] k = 6 -> [order_id |-> Str(<<"1", "0", "0", "6">>), created_at |-> Str(<<"2", "0", "2", "4", "-", "0", "3", "-", "0", "3">>),
                       line_total |-> Str(<<"0">>), line_tax |-> Str(<<"0">>),
                       line_shipping |-> Str(<<"0">>), financial_status |-> None,
                       discount |-> None]
          [] OTHER -> [order_id |-> Str(<<"1", "0", "0", "7">>), created_at |-> Str(<<"2", "0", "2", "4", "-", "0", "3", "-", "0", "4">>),
                       line_total |-> Str(<<" ", "8", "0", ".", "5", "0", " ">>), line_tax |-> Str(<<"4", ".", "0", "0">>),
                       line_shipping |-> Str(<<"6", ".", "0", "0">>),
                       financial_status |-> Str(<<"P", "a", "r", "t", "i", "a", "l", "l", "y", "_", "R", "e", "f", "u", "n", "d", "e", "d">>),
                       discount |-> Str(<<"8", ".", "0", "0">>)]
      weight == CASE k = 1 -> Str(<<"3">>)
                  [] k = 2 -> Str(<<"0", ".", "5">>)
                  [] k = 7 -> Str(<<"7">>)
                  [] OTHER -> None
  IN IF channel = "Shopify" THEN base @@ ("weight" :> weight) ELSE base
\* the sample numbers of the order and fee catalogues
OrderSampleIds == 1..7

AmazonSample(k) ==
  LET row(id, date, price, tax, ship, status, d1, d2) ==
        ("amazon-order-id" :> id) @@ ("purchase-date" :> date) @@ ("item-price" :> price)
        @@ ("item-tax" :> tax) @@ ("shipping-price" :> ship) @@ ("order-status" :> status)
        @@ ("item-promotion-discount" :> d1) @@ ("ship-promotion-discount" :> d2)
  IN CASE k = 1 -> row(Str(<<"A", "M", "Z", "1">>), Str(<<"2", "0", "2", "4", "-", "0", "2", "-", "0", "1">>), Str(<<"$", "5", "9", ".", "9", "9">>), Str(<<"$", "1", ".", "0", "0">>),
                       Str(<<"$", "4", ".", "9", "9">>), Str(<<"P", "e", "n", "d", "i", "n", "g">>), Str(<<"$", "5", ".", "0", "0">>), Str(<<"1", ".", "0", "0">>))
       [] k = 2 -> row(Str(<<"A", "M", "Z", "2">>), Str(<<"2", "0", "2", "4", "-", "0", "2", "-", "0", "2">>), Str(<<"$", "1", ",", "2", "3", "4", ".", "5", "6">>), None,
                       Str(<<"f", "r", "e", "e">>), Str(<<"C", "a", "n", "c", "e", "l", "l", "e", "d">>), None, None)
       [] k = 3 -> row(Str(<<"A", "M", "Z", "3">>), Str(<<"2", "0", "2", "4", "-", "1", "3", "-", "0", "1">>), Str(<<"$", "2", "0", ".", "0", "0">>), Str(<<"$", "1", ".", "0", "0">>),
                       Str(<<"$", "2", ".", "0", "0">>), Str(<<"S", "h", "i", "p", "p", "e", "d">>), Str(<<"$", "0", ".", "0", "0">>), Str(<<"$", "0", ".", "0", "0">>))
       [] k = 4 -> row(Str(<<"A", "M", "Z", "4">>), Str(<<"2", "0", "2", "4", "-", "0", "2", "-", "0", "4">>), Str(<<"N", "/", "A">>), Str(<<"$", "1", ".", "0", "0">>),
                       Str(<<"$", "2", ".", "0", "0">>), Str(<<"C", "a", "n", "c", "e", "l", "e", "d">>), Str(<<"$", "1", ".", "0", "0">>), None)
       [] k = 5 -> row(Str(<<"A", "M", "Z", "5">>), Str(<<"2", "0", "2", "4", "-", "0", "2", "-", "0", "5">>), Str(<<"-", "$", "5", ".", "0", "0">>), Str(<<"$", "0", ".", "2", "5">>),
                       None, Str(<<"C", "a", "n", "c", "e", "l", "e", "d">>), None, None)
       [] k = 6 -> row(Str(<<"A", "M", "Z", "6">>), Str(<<"2", "0", "2", "4", "-", "0", "2", "-", "0", "6">>), Str(<<"$", "0", ".", "0", "0">>), Str(<<"$", "0", ".", "0", "0">>),
                       Str(<<"$", "0", ".", "0", "0">>), None, None, None)
       [] OTHER -> row(Str(<<"A", "M", "Z", "7">>), Str(<<"2", "0", "2", "4", "-", "0", "2", "-", "0", "7">>), Num(80 * Scale + Scale \div 2),
                       Str(<<"$", "4", ".", "0", "0">>), Str(<<"$", "6", ".", "0", "0">>), Str(<<" ", "C", "a", "n", "c", "e", "l", "e", "d", " ">>), Str(<<"$", "8", ".", "0", "0">>),
                       Str(<<"$", "2", ".", "0", "0">>))

OrderSample(channel, k) ==
  IF channel = "Amazon" THEN AmazonSample(k) ELSE SWSample(channel, k)

\* fee rows: two for the first sample order, one for the second, one that
\* matches no order
FeeSample(channel, k) ==
  CASE channel = "Shopify" ->
         (CASE k = 1 -> [order_id |-> Str(<<"1", "0", "0", "1">>), processing_fee |-> Str(<<"3", ".", "2", "0">>)]
            [] k = 2 -> [order_id |-> Str(<<"1", "0", "0", "1">>), processing_fee |-> Str(<<"0", ".", "5", "0">>)]
            [] k = 3 -> [order_id |-> Str(<<"1", "0", "0", "2">>), processing_fee |-> None]
            [] OTHER -> [order_id |-> Str(<<"9", "9", "9", "9">>), processing_fee |-> Str(<<"1", ".", "0", "0">>)])
    [] channel = "Walmart" ->
         (CASE k = 1 -> [order_id |-> Str(<<"1", "0", "0", "1">>), transaction_type |-> Str(<<"A", "D", "J", "M", "N", "T">>),
                         commission_from_sale |-> Str(<<"8", ".", "0", "0">>)]
            [] k = 2 -> [order_id |-> Str(<<"1", "0", "0", "1">>), transaction_type |-> Str(<<"S", "A", "L", "E">>),
                         commission_from_sale |-> Str(<<"1", "5", ".", "0", "0">>)]
            [] k = 3 -> [order_id |-> Str(<<"1", "0", "0", "2">>), transaction_type |-> Str(<<"a", "d", "j", "m", "n", "t">>),
                         commission_from_sale |-> Num(2 * Scale)]
            [] OTHER -> [order_id |-> Str(<<"1", "0", "0", "7">>), transaction_type |-> Str(<<"R", "E", "F", "U", "N", "D">>),
                         commission_from_sale |-> Str(<<"1", ".", "0", "0">>)])
    [] OTHER ->
         (CASE k = 1 -> ("amazon-order-id" :> Str(<<"A", "M", "Z", "1">>)) @@ ("shop_fees" :> Str(<<"$", "9", ".", "0", "0">>))
                        @@ ("shipping_label_cost" :> Str(<<"$", "3", ".", "5", "0">>))
            [] k = 2 -> ("amazon-order-id" :> Str(<<"A", "M", "Z", "1">>)) @@ ("shop_fees" :> Str(<<"$", "1", ".", "0", "0">>))
                        @@ ("shipping_label_cost" :> None)
            [] k = 3 -> ("amazon-order-id" :> Str(<<"A", "M", "Z", "2">>)) @@ ("shop_fees" :> None)
                        @@ ("shipping_label_cost" :> Str(<<"a", "b", "c">>))
            [] OTHER -> ("amazon-order-id" :> Str(<<"Z", "Z", "Z", "9">>)) @@ ("shop_fees" :> Str(<<"$", "1", ".", "0", "0">>))
                        @@ ("shipping_label_cost" :> Str(<<"$", "1", ".", "0", "0">>)))
FeeSampleIds == 1..4

JoinKey(channel) == IF channel = "Amazon" THEN "amazon-order-id" ELSE "order_id"

\* the row without one of its columns
Without(row, col) == [c \in DOMAIN row \ {col} |-> row[c]]

\* the sequences of length at most n over ids
RECURSIVE Picks(_, _)
Picks(ids, n) ==
  IF n = 0 THEN {<<>>}
  ELSE Picks(ids, n - 1)
       \cup {Append(s, k) : s \in {t \in Picks(ids, n - 1) : Len(t) = n - 1},
                            k \in ids}

\* the samples of a table are taken in catalogue order
Increasing(s) == \A i \in 1..(Len(s) - 1) : s[i] < s[i + 1]

OrderPicks == {s \in Picks(OrderSampleIds, MaxRows) : Increasing(s)}
FeePicks == {s \in Picks(FeeSampleIds, MaxFeeRows) : Increasing(s)}

SmallOrders(channel, sel) == [i \in DOMAIN sel |-> OrderSample(channel, sel[i])]

SmallFees(channel, sel, keyed) ==
  [i \in DOMAIN sel |-> IF keyed THEN FeeSample(channel, sel[i])
                        ELSE Without(FeeSample(channel, sel[i]), JoinKey(channel))]

\* a plain valid order row, the i-th of a large table
PlainOrder(channel, i) ==
  IF channel = "Amazon"
  THEN ("amazon-order-id" :> Str(NatToChars(i))) @@ ("purchase-date" :> Str(<<"2", "0", "2", "4", "-", "0", "2", "-", "0", "1">>))
       @@ ("item-price" :> Num(10 * Scale))
  ELSE [order_id |-> Str(NatToChars(i)), created_at |-> Str(<<"2", "0", "2", "4", "-", "0", "1", "-", "0", "5">>),
        line_total |-> Num(10 * Scale), line_tax |-> Num(0), line_shipping |-> Num(0)]

\* a plain fee row, the i-th of a large table; it belongs to order i
PlainFee(channel, i) ==
  CASE channel = "Shopify" -> [order_id |-> Str(NatToChars(i)), processing_fee |-> Num(Scale)]
    [] channel = "Walmart" -> [order_id |-> Str(NatToChars(i)),
                               transaction_type |-> Str(<<"S", "A", "L", "E">>),
                               commission_from_sale |-> Num(Scale)]
    [] OTHER -> ("amazon-order-id" :> Str(NatToChars(i))) @@ ("shop_fees" :> Num(Scale))

PageRemainders == {0, 400, batch_size - 1}
TableSizes == {k * batch_size + d : k \in 0..MaxPages, d \in PageRemainders}

TableOf(name, channel, orders, fees) ==
  IF name = OrderTable(channel) THEN orders
  ELSE IF name = FeeTable(channel) THEN fees
  ELSE <<>>

\* every channel has a small order table and a small fee table, with or
\* without the join key
InitSmall ==
  \E osel \in OrderPicks, fsel \in FeePicks, keyed \in BOOLEAN :
    /\ fsel = <<>> => keyed
    /\ tables = [n \in TableNames |->
                   LET c == CHOOSE c \in ChannelSet : n \in {OrderTable(c), FeeTable(c)}
                   IN TableOf(n, c, SmallOrders(c, osel), SmallFees(c, fsel, keyed))]

\* one channel has a large order table or a large fee table, the other
\* channels have empty tables
InitLarge ==
  \E c \in ChannelSet, n \in TableSizes, largeFees \in BOOLEAN :
    tables = [t \in TableNames |->
                IF largeFees
                THEN TableOf(t, c, <<PlainOrder(c, 1)>>, [i \in 1..n |-> PlainFee(c, i)])
                ELSE TableOf(t, c, [i \in 1..n |-> PlainOrder(c, i)], <<PlainFee(c, 1)>>)]

\* the sessions that may visit the dashboard
MaxSessions == 2
SessionIds == 1..MaxSessions

\* every channel has at most one order row and one fee row
InitTiny ==
  \E osel \in {<<>>, <<1>>}, fsel \in {<<>>, <<1>>} :
    tables = [n \in TableNames |->
                LET c == CHOOSE c \in ChannelSet : n \in {OrderTable(c), FeeTable(c)}
                IN TableOf(n, c, SmallOrders(c, osel), SmallFees(c, fsel, TRUE))]

\* no session has run main() yet, no fetch function has been called
Start ==
  /\ SUPABASE_AVAILABLE \in BOOLEAN
  /\ password_correct = [s \in SessionIds |-> {}]
  /\ password = [s \in SessionIds |-> {}]
  /\ cache_cleared = [s \in SessionIds |-> FALSE]
  /\ data_loaded = [s \in SessionIds |-> FALSE]
  /\ df_full = [s \in SessionIds |-> NoneDF]
  /\ authenticated_by = [s \in SessionIds |-> {}]
  /\ fetch_calls = [s \in SessionIds |-> 0]
  /\ loads = [s \in SessionIds |-> 0]
  /\ loader = 0
  /\ now = 0
  /\ cache = [c \in ChannelSet |-> {}]
  /\ last_done = [c \in ChannelSet |-> {}]
  /\ cleared_since = [c \in ChannelSet |-> FALSE]
  /\ served = [c \in ChannelSet |-> "not_called"]
  /\ ci = 1
  /\ pc = "start"
  /\ all_data = <<>>
  /\ offset = 0
  /\ fee_all_data = <<>>
  /\ fee_offset = 0
  /\ df_orders = [c \in ChannelSet |-> NoneDF]
  /\ df_fees = [c \in ChannelSet |-> NoneDF]
  /\ df_raw = [c \in ChannelSet |-> NoneDF]
  /\ result = [c \in ChannelSet |-> Pending]
  /\ combined = Pending
  /\ requests = [n \in TableNames |-> <<>>]
  /\ outcome = [n \in TableNames |-> "not_run"]
  /\ faults = 0

\* one visitor; the secrets hold no dashboard_password
OneSession == sessions = {1} /\ secrets = {}

\* several visitors, with or without a dashboard_password in the secrets
Visitors == sessions = SessionIds /\ secrets \in {{}, {<<"s", "3", "c", "r", "e", "t">>}}

Init == InitSmall /\ Start /\ OneSession

InitPaging == InitLarge /\ Start /\ OneSession

InitSessions == InitTiny /\ Start /\ Visitors

Next ==
  \/ \E s \in sessions, p \in Passwords : EnterPassword(s, p)
  \/ \E s \in sessions : TryAgain(s)
  \/ \E s \in sessions : ClearCache(s)
  \/ \E s \in sessions, d \in Elapsed : StartLoad(s, d)
  \/ \E ok \in BOOLEAN : GetClient(ok)
  \/ \E ok \in BOOLEAN : PageRequest(ok)
  \/ \E ok \in BOOLEAN : FeeGetClient(ok)
  \/ \E ok \in BOOLEAN : FeePageRequest(ok)
  \/ MergeTransform
  \/ CombineAll
  \/ \E s \in sessions : LoadData(s)
  \/ \E s \in sessions : Rerun(s)

Spec == Init /\ [][Next]_vars

SpecPaging == InitPaging /\ [][Next]_vars

SpecSessions == InitSessions /\ [][Next]_vars

(***************************************************************************)
(* The data source for the field mapping: one channel has an order table   *)
(* of one studied row, with or without a second row of numeric cells, and  *)
(* a fee table; the tables of the other channels are empty.                *)
(***************************************************************************)
\* a change to the rows of a table: cells set in the studied row, columns
\* the table does not have
FieldCase(set, drop) == [set |-> set, drop |-> drop]

NoChange == FieldCase(<<>>, {})

\* the studied row under a change
Changed(row, case) ==
  [c \in (DOMAIN row \cup DOMAIN case.set) \ case.drop |->
     IF c \in DOMAIN case.set THEN case.set[c] ELSE row[c]]

WeightCells ==
  {Str(<<"0", ".", "5">>), Str(<<"0", ".", "9", "9", "9", "9", "9">>), Str(<<"1">>), Str(<<"1", ".", "0">>), Str(<<"3">>), Str(<<"5">>),
   Str(<<"5", ".", "0", "0", "0", "0", "1">>), Str(<<"7">>), Str(<<"-", "2">>), Str(<<" ", "3", " ">>), Str(<<"a", "b", "c">>), Str(<<>>), None,
   Num(0), Num(Scale), Num(5 * Scale), Num(6 * Scale)}

ShippingCells == {Str(<<"4", ".", "0", "0">>), Str(<<"a", "b", "c">>), None}

CurrencyCells ==
  {Str(<<"$", "1", ",", "2", "3", "4", ".", "5", "6">>), Str(<<"$", "5", ".", "0", "0">>), Str(<<"a", "b", "c">>), Str(<<"$">>), Str(<<"1", ".", "2", ".", "3">>), None,
   Num(3 * Scale)}

CurrencyFields ==
  {"item-price", "item-tax", "shipping-tax", "shipping-price",
   "item-promotion-discount", "ship-promotion-discount"}

\* cells of financial_status and fulfillment_status
PaymentCells == {Str(<<" ", "R", "e", "f", "u", "n", "d", "e", "d", " ">>), Str(<<"P", "A", "I", "D">>), Str(<<>>), None}

FulfillmentCells == {Str(<<"u", "n", "f", "u", "l", "f", "i", "l", "l", "e", "d">>), Str(<<" ", "p", "a", "r", "t", "i", "a", "l", " ">>), None}

StatusCells ==
  {Str(<<"C", "a", "n", "c", "e", "l", "e", "d">>), Str(<<"C", "a", "n", "c", "e", "l", "l", "e", "d">>), Str(<<"P", "e", "n", "d", "i", "n", "g">>), Str(<<"U", "n", "s", "h", "i", "p", "p", "e", "d">>),
   Str(<<"S", "h", "i", "p", "p", "e", "d">>), Str(<<"D", "e", "l", "i", "v", "e", "r", "e", "d">>), Str(<<"R", "e", "t", "u", "r", "n", "e", "d">>), Str(<<"p", "e", "n", "d", "i", "n", "g">>),
   Str(<<" ", "P", "e", "n", "d", "i", "n", "g", " ">>), Str(<<>>), None}

\* the columns the transforms read
ReadColumns(channel) ==
  IF channel = "Amazon"
  THEN {"purchase-date", "amazon-order-id", "item-price", "order-status", "shipping-price"}
  ELSE {"created_at", "order_id", "line_total", "line_tax", "line_shipping",
        "financial_status", "discount"}

FieldCases(channel) ==
  {NoChange}
  \cup {FieldCase(<<>>, {d}) : d \in ReadColumns(channel)}
  \cup (CASE channel = "Shopify" ->
               {FieldCase("weight" :> w, {}) : w \in WeightCells}
               \cup {FieldCase(("weight" :> w) @@ ("line_shipping" :> s), {})
                       : w \in {Str(<<"a", "b", "c">>), None}, s \in ShippingCells}
               \cup {FieldCase("line_shipping" :> s, {"weight"}) : s \in ShippingCells}
               \cup {FieldCase(<<>>, {"weight", "line_shipping"}),
                     FieldCase("order_number" :> Str(<<"7", "7">>), {}),
                     FieldCase("order_number" :> Str(<<"7", "7">>), {"order_id"})}
          [] channel = "Walmart" ->
               {FieldCase("financial_status" :> v, {}) : v \in PaymentCells}
               \cup {FieldCase("fulfillment_status" :> v, {}) : v \in FulfillmentCells}
          [] OTHER ->
               {FieldCase(f :> v, {}) : f \in CurrencyFields, v \in CurrencyCells}
               \cup {FieldCase("order-status" :> v, {}) : v \in StatusCells})

\* the studied row of a channel and the row of numeric cells
FieldBase(channel) == OrderSample(channel, 1)

FieldMate(channel) ==
  IF channel = "Amazon"
  THEN ("amazon-order-id" :> Str(<<"A", "M", "Z", "9">>)) @@ ("purchase-date" :> Str(<<"2", "0", "2", "4", "-", "0", "2", "-", "0", "9">>))
       @@ ("item-price" :> Num(10 * Scale)) @@ ("item-tax" :> Num(Scale))
       @@ ("shipping-tax" :> Num(Scale)) @@ ("shipping-price" :> Num(Scale))
       @@ ("order-status" :> Str(<<"S", "h", "i", "p", "p", "e", "d">>))
       @@ ("item-promotion-discount" :> Num(Scale))
       @@ ("ship-promotion-discount" :> Num(Scale))
  ELSE [order_id |-> Str(<<"2", "0", "0", "2">>), created_at |-> Str(<<"2", "0", "2", "4", "-", "0", "1", "-", "0", "9">>),
        line_total |-> Num(10 * Scale), line_tax |-> Num(Scale),
        line_shipping |-> Num(Scale), financial_status |-> Str(<<"p", "a", "i", "d">>),
        discount |-> Num(Scale)]
       @@ (IF channel = "Shopify" THEN "weight" :> Num(2 * Scale) ELSE <<>>)

FieldOrders(channel, case, mate) ==
  <<Changed(FieldBase(channel), case)>>
  \o (IF mate THEN <<Changed(FieldMate(channel), FieldCase(<<>>, case.drop))>> ELSE <<>>)

\* the fee tables: none, the sample fee rows, and for Shopify fee rows with
\* an order_number
FeeCases(channel) ==
  {<<>>, <<FeeSample(channel, 1)>>, <<FeeSample(channel, 2)>>, <<FeeSample(channel, 3)>>}
  \cup (CASE channel = "Shopify" ->
               {<<[order_number |-> Str(<<"7", "7">>), processing_fee |-> Str(<<"0", ".", "7", "0">>)]>>,
                <<[order_id |-> Str(<<"1", "0", "0", "1">>), order_number |-> Str(<<"8", "8">>),
                   processing_fee |-> Str(<<"0", ".", "8", "0">>)],
                  [order_id |-> Str(<<"5", "5", "5", "5">>), order_number |-> Str(<<"7", "7">>),
                   processing_fee |-> Str(<<"0", ".", "7", "0">>)]>>}
          [] channel = "Walmart" ->
               {<<[order_id |-> Str(<<"1", "0", "0", "1">>), commission_from_sale |-> Str(<<"8", ".", "0", "0">>)]>>}
          [] OTHER -> {})

InitStudied ==
  \E c \in ChannelSet :
    \E case \in FieldCases(c), mate \in BOOLEAN, fees \in FeeCases(c) :
      tables = [t \in TableNames |-> TableOf(t, c, FieldOrders(c, case, mate), fees)]

\* the same program on the tables of the field mapping
InitFields == InitStudied /\ Start /\ OneSession

SpecFields == InitFields /\ [][Next]_vars

(***************************************************************************)
(* Properties                                                              *)
(***************************************************************************)
\* the canonical records a channel's fetch function returned
Records(c) == Range(result[c].rows)

\* the canonical records of all channels and of the combined frame
AllRecords == UNION {Records(c) : c \in ChannelSet} \cup Range(combined.rows)

\* the positions in frame df of the raw rows that satisfy P
RowsWhere(df, P(_)) == {i \in DOMAIN df.rows : P(df.rows[i])}

\* the raw row a canonical record of channel c was made from
RawOf(c, rec) == df_raw[c].rows[rec.idx]

\* the channel's fetch function went through its merge
Merged(c) == df_orders[c].st = "df" /\ result[c].st # "pending"

RawDate(c, r) == ToDatetime(r[IF c = "Amazon" THEN "purchase-date" ELSE "created_at"])
RawRevenue(c, r) ==
  IF c # "Amazon" THEN ToNumeric(r["line_total"])
  ELSE IF "item-price" \in DOMAIN r THEN Currency(r["item-price"]) ELSE 0
RawInvalid(c, r) == RawDate(c, r) = NaT \/ RawRevenue(c, r) = NaN \/ RawRevenue(c, r) <= 0

C2_OnlyValidRecords ==
  /\ \A rec \in AllRecords : rec.date # NaT /\ rec.revenue # NaN /\ rec.revenue > 0
  /\ \A c \in ChannelSet : \A rec \in Records(c) : ~RawInvalid(c, RawOf(c, rec))
  /\ \A c \in ChannelSet :
       result[c].st = "df" =>
         {rec.idx : rec \in Records(c)}
           = RowsWhere(df_raw[c], LAMBDA r : ~RawInvalid(c, r))

\* a channel dropped an invalid row and kept a valid one, and the combined
\* frame is there
C2_Witness ==
  /\ combined.st = "df"
  /\ \E c \in ChannelSet :
       /\ result[c].st = "df"
       /\ \E i \in DOMAIN df_raw[c].rows : RawInvalid(c, df_raw[c].rows[i])

\* C3: refund_amount is the revenue of a refunded (Shopify, Walmart: or
\* partially refunded) record and 0 of any other; refund = refund_amount
C3_RefundAmount ==
  \A c \in ChannelSet : \A rec \in Records(c) :
    /\ rec.refund = rec.refund_amount
    /\ rec.refund_amount =
         IF \/ rec.financial_status = <<"r", "e", "f", "u", "n", "d", "e", "d">>
            \/ c # "Amazon" /\ rec.financial_status = <<"p", "a", "r", "t", "i", "a", "l", "l", "y", "_", "r", "e", "f", "u", "n", "d", "e", "d">>
         THEN rec.revenue ELSE 0

C3_Witness ==
  /\ \E rec \in Records("Shopify") :
       rec.financial_status = <<"p", "a", "r", "t", "i", "a", "l", "l", "y", "_", "r", "e", "f", "u", "n", "d", "e", "d">> /\ rec.refund_amount = rec.revenue
  /\ \E rec \in Records("Walmart") :
       rec.financial_status = <<"r", "e", "f", "u", "n", "d", "e", "d">> /\ rec.refund_amount = rec.revenue
  /\ \E rec \in Records("Amazon") :
       rec.financial_status = <<"r", "e", "f", "u", "n", "d", "e", "d">> /\ rec.refund_amount = rec.revenue

\* C4: net_revenue = revenue - refund_amount for Shopify and Walmart,
\* whatever the discount; revenue - refund_amount - discount for Amazon
C4_NetRevenue ==
  \A c \in ChannelSet : \A rec \in Records(c) :
    rec.net_revenue = IF c = "Amazon"
                      THEN rec.revenue - rec.refund_amount - rec.discount
                      ELSE rec.revenue - rec.refund_amount

C4_Witness ==
  \A c \in ChannelSet : \E rec \in Records(c) : rec.discount > 0

\* C5: cogs = revenue * 0.40 in every record
C5_Cogs ==
  \A c \in ChannelSet : \A rec \in Records(c) : rec.cogs * 5 = rec.revenue * 2

C5_Witness ==
  /\ \A c \in ChannelSet : \E rec \in Records(c) : rec.cogs > 0
  /\ \E rec \in Records("Shopify") : rec.revenue = 100 * Scale /\ rec.cogs = 40 * Scale

\* C6: a pagination loop asks for the offsets 0, 1000, 2000, ... and, for a
\* table of N rows, ends after exactly N \div 1000 + 1 requests
C6_PageRequests ==
  \A t \in TableNames :
    /\ \A i \in DOMAIN requests[t] : requests[t][i] = (i - 1) * batch_size
    /\ Len(requests[t]) <= Len(tables[t]) \div batch_size + 1
    /\ outcome[t] = "fetched" =>
         /\ Len(requests[t]) = Len(tables[t]) \div batch_size + 1
         /\ ~(pc = "page" /\ t = OrderTable(chan))
         /\ ~(pc = "fee_page" /\ t = FeeTable(chan))

\* a table of 1000 rows and then 400 was asked exactly twice
C6_Witness ==
  \E t \in TableNames :
    /\ Len(tables[t]) = batch_size + 400
    /\ outcome[t] = "fetched"
    /\ requests[t] = <<0, batch_size>>

\* C7: when no client can be made or a page request fails, the fetch
\* functions return None: no exception leaves them and no rows of earlier
\* pages are returned
Unavailable(t) == outcome[t] \in {"no_client", "request_failed"}

C7_UnavailableIsNone ==
  /\ combined.st # "raise"
  /\ \A c \in ChannelSet :
       /\ result[c].st # "raise"
       /\ df_fees[c].st # "raise"
       /\ Unavailable(OrderTable(c)) => result[c] = NoneDF
       /\ Unavailable(FeeTable(c)) => df_fees[c] = NoneDF

\* a request for a later page failed after rows had been gathered
C7_Witness ==
  \E c \in ChannelSet :
    /\ outcome[OrderTable(c)] = "request_failed"
    /\ Len(requests[OrderTable(c)]) >= 2
    /\ all_data # <<>>
    /\ result[c] = NoneDF

\* C8: after the fee join every fetched order row is in the joined frame,
\* whatever the fee table looks like, and an order row without a fee row has
\* null in every fee column
MergeKey(c) ==
  CASE c = "Shopify" -> ShopifyMergeKey(df_orders[c], df_fees[c])
    [] c = "Walmart" -> "order_id"
    [] OTHER -> "amazon-order-id"

HasFeeRow(c, r) ==
  /\ MergeKey(c) \in df_fees[c].cols
  /\ \E j \in DOMAIN df_fees[c].rows : KeyEq(r[MergeKey(c)], df_fees[c].rows[j][MergeKey(c)])

C8_LeftJoinKeepsOrders ==
  \A c \in ChannelSet :
    Merged(c) =>
      /\ df_raw[c].st = "df"
      /\ \A i \in DOMAIN df_orders[c].rows :
           \E j \in DOMAIN df_raw[c].rows :
             \A col \in df_orders[c].cols :
               df_raw[c].rows[j][col] = df_orders[c].rows[i][col]
      /\ \A j \in DOMAIN df_raw[c].rows :
           ~HasFeeRow(c, df_raw[c].rows[j]) =>
             \A col \in df_raw[c].cols \ df_orders[c].cols : IsNull(df_raw[c].rows[j][col])

\* C9: a Walmart row joined with an ADJMNT fee row has that row's
\* commission as shipping_cost; joined with a SALE fee row, as platform_fee
C9_WalmartCommission ==
  \A i \in DOMAIN result["Walmart"].rows :
    LET rec == result["Walmart"].rows[i]
        raw == RawOf("Walmart", rec)
        joined == WalmartFeeCols(df_raw["Walmart"].cols) /\ HasFeeRow("Walmart", raw)
        commission == ToNumeric(raw["commission_from_sale"])
    IN joined /\ commission # NaN =>
         /\ raw["transaction_type"] = Str(<<"A", "D", "J", "M", "N", "T">>) => rec.shipping_cost = commission
         /\ raw["transaction_type"] = Str(<<"S", "A", "L", "E">>) => rec.platform_fee = commission

C9_Witness ==
  /\ WalmartFeeCols(df_raw["Walmart"].cols)
  /\ \E rec \in Records("Walmart") :
       /\ RawOf("Walmart", rec)["transaction_type"] = Str(<<"A", "D", "J", "M", "N", "T">>)
       /\ rec.shipping_cost = 8 * Scale
  /\ \E rec \in Records("Walmart") :
       /\ RawOf("Walmart", rec)["transaction_type"] = Str(<<"S", "A", "L", "E">>)
       /\ rec.platform_fee = 15 * Scale

\* C10: platform_fee of a row without a fee value
FeeColumn(c) == IF c = "Shopify" THEN "processing_fee" ELSE "shop_fees"

Fallback(c, revenue) ==
  IF c = "Shopify" THEN (revenue \div 1000) * 59 + 30 * (Scale \div 100)
  ELSE (revenue \div 1000) * 150 + 99 * (Scale \div 100)

\* the row has the fee column and the left join found no fee row for it
Unmatched(c, raw) ==
  /\ FeeColumn(c) \in df_raw[c].cols
  /\ ~HasFeeRow(c, raw)
  /\ IsNull(raw[FeeColumn(c)])

\* C10 as stated: a Shopify or Amazon row for which the left join found no
\* fee row has the fallback formula as platform_fee
C10_FallbackForUnmatchedRow ==
  \A c \in {"Shopify", "Amazon"} : \A rec \in Records(c) :
    Unmatched(c, RawOf(c, rec)) => rec.platform_fee = Fallback(c, rec.revenue)

\* C10 amended: a Shopify or Amazon row whose fee cell is null in a frame
\* that has the fee column has platform_fee 0; the fallback formula is the
\* platform_fee of the rows of a frame without the fee column
C10_ZeroForUnmatchedRow ==
  \A c \in {"Shopify", "Amazon"} : \A rec \in Records(c) :
    /\ (FeeColumn(c) \in df_raw[c].cols /\ IsNull(RawOf(c, rec)[FeeColumn(c)]))
         => rec.platform_fee = 0
    /\ FeeColumn(c) \notin df_raw[c].cols => rec.platform_fee = Fallback(c, rec.revenue)

C10_Witness ==
  \A c \in {"Shopify", "Amazon"} : \E rec \in Records(c) :
    Unmatched(c, RawOf(c, rec)) /\ rec.platform_fee = 0

\* the raw order row has a date and a revenue that make a valid record
HasDateAndRevenue(c, r) ==
  /\ (IF c = "Amazon" THEN "purchase-date" ELSE "created_at") \in DOMAIN r
  /\ c # "Amazon" => "line_total" \in DOMAIN r
  /\ ~RawInvalid(c, r)

\* C11: when a raw column the mapping reads is absent, the channel still
\* returns its records: order rows with a valid date and revenue are never
\* discarded as a whole batch
C11_MissingColumnKeepsBatch ==
  \A c \in ChannelSet :
    (Merged(c) /\ \E i \in DOMAIN df_orders[c].rows :
                     HasDateAndRevenue(c, df_orders[c].rows[i]))
      => result[c].st = "df"

\* the number of records a channel returned, and the number returned by the
\* channels fetched before it
Count(c) == IF result[c].st = "df" THEN Len(result[c].rows) ELSE 0

RECURSIVE CountBefore(_)
CountBefore(k) == IF k <= 1 THEN 0 ELSE CountBefore(k - 1) + Count(Channels[k - 1])

\* the columns of a record apart from its row label
Fields(rec) == DOMAIN rec \ {"idx"}

\* C12: the combined frame is the records of Shopify, then Walmart, then
\* Amazon, each channel's records in their order and with their channel tag,
\* none dropped, merged or added
C12_ConcatInOrder ==
  pc \in {"done", "dashboard"} =>
    /\ Len(combined.rows) = CountBefore(Len(Channels) + 1)
    /\ \A k \in DOMAIN Channels : \A i \in 1..Count(Channels[k]) :
         /\ combined.rows[CountBefore(k) + i].channel = Channels[k]
         /\ \A f \in Fields(result[Channels[k]].rows[i]) :
              combined.rows[CountBefore(k) + i][f] = result[Channels[k]].rows[i][f]

\* all three channels returned records, one of them two
C12_Witness ==
  /\ pc = "done"
  /\ \A c \in ChannelSet : Count(c) >= 1
  /\ \E c \in ChannelSet : Count(c) = 2
  /\ Len(combined.rows) >= 4

\* the channel's fetch function returned records
Usable(c) == result[c].st = "df" /\ ~Empty(result[c])

C14_SampleForFailedChannels ==
  (pc = "dashboard" /\ SUPABASE_AVAILABLE /\ \E c \in ChannelSet : Usable(c)) =>
    \A c \in ChannelSet :
      IF Usable(c)
      THEN \A i \in DOMAIN result[c].rows :
             \E j \in DOMAIN df_full[loader].rows :
               \A f \in Fields(result[c].rows[i]) :
                 df_full[loader].rows[j][f] = result[c].rows[i][f]
      ELSE \E j \in DOMAIN df_full[loader].rows :
             /\ df_full[loader].rows[j].channel = c
             /\ df_full[loader].rows[j] \in Range(generate_sample_data.rows)

\* the join key of the Shopify fee join
ShopifyKey ==
  IF "order_number" \in df_orders["Shopify"].cols /\ "order_number" \in df_fees["Shopify"].cols
  THEN "order_number" ELSE "order_id"

\* the fee rows whose key equals the key of row r
FeeRowsFor(r, key) ==
  {j \in DOMAIN df_fees["Shopify"].rows : KeyEq(r[key], df_fees["Shopify"].rows[j][key])}

\* the Shopify fetch joined a fee table that has rows
ShopifyJoined ==
  /\ Merged("Shopify")
  /\ df_fees["Shopify"].st = "df"
  /\ ~Empty(df_fees["Shopify"])

\* C15: the Shopify fee join is on order_number when the order rows and the
\* fee rows both have that column and on order_id otherwise: a joined row
\* has the processing_fee of a fee row with the same key, or none when no
\* fee row has its key, and each order row is there once per such fee row
C15_ShopifyJoinKey ==
  (ShopifyJoined /\ df_raw["Shopify"].st = "df") =>
    /\ ShopifyKey \in df_orders["Shopify"].cols \cap df_fees["Shopify"].cols
    /\ \A i \in DOMAIN df_raw["Shopify"].rows :
         IF FeeRowsFor(df_raw["Shopify"].rows[i], ShopifyKey) = {}
         THEN IsNull(df_raw["Shopify"].rows[i]["processing_fee"])
         ELSE \E j \in FeeRowsFor(df_raw["Shopify"].rows[i], ShopifyKey) :
                df_raw["Shopify"].rows[i]["processing_fee"]
                  = df_fees["Shopify"].rows[j]["processing_fee"]
    /\ \A i \in DOMAIN df_orders["Shopify"].rows :
         Cardinality({j \in DOMAIN df_raw["Shopify"].rows :
                        \A col \in df_orders["Shopify"].cols :
                          df_raw["Shopify"].rows[j][col] = df_orders["Shopify"].rows[i][col]})
           = IF FeeRowsFor(df_orders["Shopify"].rows[i], ShopifyKey) = {} THEN 1
             ELSE Cardinality(FeeRowsFor(df_orders["Shopify"].rows[i], ShopifyKey))

\* an order row was joined on its order_number with a fee row of another
\* order_id, while a fee row with its order_id was there too
C15_Witness ==
  /\ ShopifyJoined
  /\ df_raw["Shopify"].st = "df"
  /\ ShopifyKey = "order_number"
  /\ {"order_id", "order_id_fee"} \subseteq df_raw["Shopify"].cols
  /\ \E i \in DOMAIN df_raw["Shopify"].rows :
       /\ df_raw["Shopify"].rows[i]["order_id"] = Str(<<"1", "0", "0", "1">>)
       /\ df_raw["Shopify"].rows[i]["order_id_fee"] = Str(<<"5", "5", "5", "5">>)
       /\ df_raw["Shopify"].rows[i]["processing_fee"] = Str(<<"0", ".", "7", "0">>)
  /\ \E j \in DOMAIN df_fees["Shopify"].rows :
       df_fees["Shopify"].rows[j]["order_id"] = Str(<<"1", "0", "0", "1">>)

\* the number a weight cell parses to, NaN when it is no number
WeightOf(cell) ==
  CASE cell.k = "num" -> cell.n
    [] cell.k = "str" -> ParseNum(cell.s)
    [] OTHER -> NaN

\* the Shopify records made from a frame with a weight column
WeighedRecords ==
  IF "weight" \in df_raw["Shopify"].cols THEN Records("Shopify") ELSE {}

\* C16: a Shopify record whose weight parses to a number w has shipping_cost
\* 7.0 when w < 1, 12.0 when 1 <= w <= 5 and 19.5 when w > 5
C16_WeightTiers ==
  \A rec \in WeighedRecords :
    WeightOf(RawOf("Shopify", rec)["weight"]) # NaN =>
      rec.shipping_cost =
        IF WeightOf(RawOf("Shopify", rec)["weight"]) < Scale THEN 7 * Scale
        ELSE IF WeightOf(RawOf("Shopify", rec)["weight"]) <= 5 * Scale THEN 12 * Scale
        ELSE 19 * Scale + Scale \div 2

\* a record of weight exactly 5 has shipping_cost 12.0
C16_Witness ==
  \E rec \in WeighedRecords :
    /\ RawOf("Shopify", rec)["weight"] = Str(<<"5">>)
    /\ rec.shipping_cost = 12 * Scale

\* the row's line_shipping, 0 when it is missing or does not parse
LineShippingOr0(r) ==
  IF "line_shipping" \in DOMAIN r THEN FillNa0(ToNumeric(r["line_shipping"])) ELSE 0

\* the row has no weight that parses to a number
NoUsableWeight(r) == "weight" \notin DOMAIN r \/ WeightOf(r["weight"]) = NaN

\* C17: a Shopify record without a usable weight has its line_shipping as
\* shipping_cost, 0 when that is missing or does not parse
C17_LineShippingWithoutWeight ==
  \A rec \in Records("Shopify") :
    NoUsableWeight(RawOf("Shopify", rec)) =>
      rec.shipping_cost = LineShippingOr0(RawOf("Shopify", rec))

\* the columns a channel's fee table brings
FeeColumns(c) ==
  CASE c = "Shopify" -> {"processing_fee"}
    [] c = "Walmart" -> {"commission_from_sale", "transaction_type"}
    [] OTHER -> {"shop_fees", "shipping_label_cost"}

\* revenue x 0.059 + 0.30, revenue x 0.15, revenue x 0.15 + 0.99
FallbackFee(c, revenue) ==
  CASE c = "Shopify" -> (revenue * 59) \div 1000 + (30 * Scale) \div 100
    [] c = "Walmart" -> (revenue * 15) \div 100
    [] OTHER -> (revenue * 15) \div 100 + (99 * Scale) \div 100

\* C18: the records of a frame without any fee column have the channel's
\* fallback formula as platform_fee
C18_FallbackWithoutFeeColumns ==
  \A c \in ChannelSet : \A rec \in Records(c) :
    FeeColumns(c) \cap df_raw[c].cols = {} =>
      rec.platform_fee = FallbackFee(c, rec.revenue)

\* the Shopify record of revenue 100.00 and shipping 12.00 without fee data:
\* platform_fee 6.20 and net_profit 41.80
C18_Witness ==
  /\ FeeColumns("Shopify") \cap df_raw["Shopify"].cols = {}
  /\ \E rec \in Records("Shopify") :
       /\ rec.revenue = 100 * Scale
       /\ rec.shipping_cost = 12 * Scale
       /\ rec.platform_fee = 620 * (Scale \div 100)
       /\ rec.net_profit = 4180 * (Scale \div 100)

\* the fixed vocabulary of C19 on a status text, any other text -> paid
Vocabulary(s) ==
  IF s \in {<<"C", "a", "n", "c", "e", "l", "e", "d">>, <<"C", "a", "n", "c", "e", "l", "l", "e", "d">>} THEN <<"r", "e", "f", "u", "n", "d", "e", "d">>
  ELSE IF s \in {<<"P", "e", "n", "d", "i", "n", "g">>, <<"U", "n", "s", "h", "i", "p", "p", "e", "d">>} THEN <<"p", "e", "n", "d", "i", "n", "g">>
  ELSE <<"p", "a", "i", "d">>

\* the Amazon records made from a frame with an order-status column
StatusRecords ==
  IF "order-status" \in df_raw["Amazon"].cols THEN Records("Amazon") ELSE {}

\* C19: an Amazon record has the financial_status the vocabulary gives for
\* its order-status (paid for a missing one), and its order_status field is
\* the raw order-status unchanged
C19_StatusMappedAndPreserved ==
  /\ \A rec \in Records("Amazon") \ StatusRecords : rec.financial_status = <<"p", "a", "i", "d">>
  /\ \A rec \in StatusRecords :
       IF RawOf("Amazon", rec)["order-status"].k = "str"
       THEN /\ rec.financial_status
                 = Vocabulary(Strip(RawOf("Amazon", rec)["order-status"].s))
            /\ rec.order_status = RawOf("Amazon", rec)["order-status"].s
       ELSE rec.financial_status = <<"p", "a", "i", "d">>

\* the rows transform_amazon_data computes before it filters them
AmazonTransformed ==
  IF df_raw["Amazon"].st = "df" /\ AmazonRequired \subseteq df_raw["Amazon"].cols
  THEN {AmazonRow(df_raw["Amazon"], i) : i \in DOMAIN df_raw["Amazon"].rows}
  ELSE {}

\* currency strings that are no amount
MalformedCells == {Str(<<"a", "b", "c">>), Str(<<"$">>), Str(<<"1", ".", "2", ".", "3">>), Str(<<"f", "r", "e", "e">>)}

\* the amount of a currency cell: 1234.56 for "$1,234.56", 0 for a malformed
\* or null cell
Amount(cell) ==
  IF cell = Str(<<"$", "1", ",", "2", "3", "4", ".", "5", "6">>) THEN 123456 * (Scale \div 100)
  ELSE IF cell \in MalformedCells \/ IsNull(cell) THEN 0
  ELSE Currency(cell)

\* the amount of column f of raw row r, 0 when the row has no such column
AmountOf(r, f) == IF f \in DOMAIN r THEN Amount(r[f]) ELSE 0

\* shipping_cost, tax, platform_fee and discount of a computed Amazon row
\* are the amounts of the cells they consume
ConsumersDefaultTo0(row) ==
  /\ row.shipping_cost =
       IF "shipping_label_cost" \in DOMAIN RawOf("Amazon", row)
       THEN AmountOf(RawOf("Amazon", row), "shipping_label_cost")
       ELSE AmountOf(RawOf("Amazon", row), "shipping-price")
  /\ row.tax = AmountOf(RawOf("Amazon", row), "item-tax")
                 + AmountOf(RawOf("Amazon", row), "shipping-tax")
  /\ "shop_fees" \in DOMAIN RawOf("Amazon", row) =>
       row.platform_fee = AmountOf(RawOf("Amazon", row), "shop_fees")
  /\ row.discount = AmountOf(RawOf("Amazon", row), "item-promotion-discount")
                      + AmountOf(RawOf("Amazon", row), "ship-promotion-discount")

\* the item-price of the computed row is malformed
MalformedPrice(row) ==
  /\ "item-price" \in DOMAIN RawOf("Amazon", row)
  /\ RawOf("Amazon", row)["item-price"] \in MalformedCells

\* C20 as stated: every field that consumes a malformed currency string,
\* revenue included, takes the value 0
C20_MalformedCurrencyIsZero ==
  \A row \in AmazonTransformed :
    /\ ConsumersDefaultTo0(row)
    /\ "item-price" \in DOMAIN RawOf("Amazon", row) =>
         row.revenue = Amount(RawOf("Amazon", row)["item-price"])

\* C20 amended: "$1,234.56" parses to 1234.56; shipping_cost, tax,
\* platform_fee and discount take 0 for a malformed string; a revenue that
\* does not parse stays null and the row is dropped
C20_MalformedRevenueIsDropped ==
  \A row \in AmazonTransformed :
    /\ ConsumersDefaultTo0(row)
    /\ "item-price" \in DOMAIN RawOf("Amazon", row) =>
         IF MalformedPrice(row) \/ IsNull(RawOf("Amazon", row)["item-price"])
         THEN row.revenue = NaN /\ row \notin Records("Amazon")
         ELSE row.revenue = Amount(RawOf("Amazon", row)["item-price"])

\* a record whose shipping-price is malformed has shipping_cost 0
C20_Witness ==
  /\ "shipping_label_cost" \notin df_raw["Amazon"].cols
  /\ "shipping-price" \in df_raw["Amazon"].cols
  /\ \E rec \in Records("Amazon") :
       /\ RawOf("Amazon", rec)["shipping-price"] = Str(<<"a", "b", "c">>)
       /\ rec.shipping_cost = 0
       /\ rec.revenue > 0

\* the text of a status cell, trimmed; no text for a null cell
StatusText(cell) == IF cell.k = "str" THEN Strip(cell.s) ELSE <<>>

\* the raw row has no value in column col
Absent(r, col) == col \notin DOMAIN r \/ IsNull(r[col])

\* C21: a Shopify or Walmart record has the lower-cased, trimmed raw
\* financial_status, 'paid' when the raw value is absent, and the raw
\* fulfillment_status, 'fulfilled' when that is absent
C21_StatusDefaults ==
  \A c \in {"Shopify", "Walmart"} : \A rec \in Records(c) :
    /\ rec.financial_status =
         IF Absent(RawOf(c, rec), "financial_status") THEN <<"p", "a", "i", "d">>
         ELSE Lower(StatusText(RawOf(c, rec)["financial_status"]))
    /\ rec.fulfillment_status =
         IF Absent(RawOf(c, rec), "fulfillment_status") THEN <<"f", "u", "l", "f", "i", "l", "l", "e", "d">>
         ELSE StatusText(RawOf(c, rec)["fulfillment_status"])

\* the raw columns the channel's transform reads without a guard
Required(c, cols) == IF c = "Amazon" THEN AmazonRequired ELSE SWRequired(cols, c)

\* the transform of channel c gets as far as its validation of frame df
Validates(c, df) == df.st = "df" /\ Required(c, df.cols) \subseteq df.cols

\* no row of the merged frame of channel c is valid
NoneSurvives(c) == RowsWhere(df_raw[c], LAMBDA r : ~RawInvalid(c, r)) = {}

\* C22: a transform never returns an empty frame; when no row of the frame
\* it validates is valid, and when the frame is None or has no rows, it
\* returns None and does not raise
C22_NoneNeverEmpty ==
  \A c \in ChannelSet :
    /\ result[c].st = "df" => ~Empty(result[c])
    /\ Transform(c, NoneDF) = NoneDF
    /\ df_orders[c].st = "df" => Transform(c, MkDF(df_orders[c].cols, <<>>)) = NoneDF
    /\ (Merged(c) /\ Validates(c, df_raw[c]) /\ NoneSurvives(c))
         => Transform(c, df_raw[c]) = NoneDF

\* a channel whose merged frame has two rows, neither of them valid,
\* returned None
C22_Witness ==
  \E c \in ChannelSet :
    /\ Merged(c) /\ Validates(c, df_raw[c]) /\ Len(df_raw[c].rows) >= 2 /\ NoneSurvives(c)
    /\ result[c] = NoneDF

\* the transaction type of a raw Walmart row as the mask compares it
TransactionType(r) == Upper(AsStr(r["transaction_type"]))

\* the commission of a raw Walmart row, 0 when it is no number
Commission(r) == FillNa0(ToNumeric(r["commission_from_sale"]))

\* C25: a Walmart record of a frame with the columns commission_from_sale
\* and transaction_type never has both shipping_cost and platform_fee
\* non-zero: the commission is the shipping_cost of an ADJMNT row only and
\* the platform_fee of a SALE row only, and a row of any other type, or of
\* no fee row, has 0 for both
C25_CommissionCountedOnce ==
  \A rec \in Records("Walmart") :
    WalmartFeeCols(df_raw["Walmart"].cols) =>
      /\ rec.shipping_cost = 0 \/ rec.platform_fee = 0
      /\ rec.shipping_cost =
           IF TransactionType(RawOf("Walmart", rec)) = <<"A", "D", "J", "M", "N", "T">>
           THEN Commission(RawOf("Walmart", rec)) ELSE 0
      /\ rec.platform_fee =
           IF TransactionType(RawOf("Walmart", rec)) = <<"S", "A", "L", "E">>
           THEN Commission(RawOf("Walmart", rec)) ELSE 0

\* the order with an ADJMNT and a SALE fee row has one record for each, and
\* the order without a fee row has 0 for both
C25_Witness ==
  /\ WalmartFeeCols(df_raw["Walmart"].cols)
  /\ \E rec \in Records("Walmart") :
       /\ TransactionType(RawOf("Walmart", rec)) = <<"A", "D", "J", "M", "N", "T">>
       /\ rec.shipping_cost = 8 * Scale /\ rec.platform_fee = 0
  /\ \E rec \in Records("Walmart") :
       /\ TransactionType(RawOf("Walmart", rec)) = <<"S", "A", "L", "E">>
       /\ rec.shipping_cost = 0 /\ rec.platform_fee = 15 * Scale
  /\ \E rec \in Records("Walmart") :
       /\ IsNull(RawOf("Walmart", rec)["transaction_type"])
       /\ rec.shipping_cost = 0 /\ rec.platform_fee = 0

\* the fee rows of channel c that the join gives to order row r: none when
\* no join was made
FeeMatches(c, r) ==
  IF df_fees[c].st = "df" /\ MergeKey(c) \in df_fees[c].cols
  THEN {j \in DOMAIN df_fees[c].rows : KeyEq(r[MergeKey(c)], df_fees[c].rows[j][MergeKey(c)])}
  ELSE {}

\* the number of joined rows the claim gives to order row r
Copies(c, r) == IF FeeMatches(c, r) = {} THEN 1 ELSE Cardinality(FeeMatches(c, r))

\* the positions in the merged frame of the rows made from order row r
JoinedFrom(c, r) ==
  {j \in DOMAIN df_raw[c].rows : \A col \in df_orders[c].cols : df_raw[c].rows[j][col] = r[col]}

\* C26: in the merged frame an order row with k >= 1 matching fee rows is
\* there k times and an order row without one is there once; each of these
\* rows, when valid, gives one record with the full revenue of the order
C26_OneRecordPerFeeRow ==
  \A c \in ChannelSet :
    (Merged(c) /\ df_raw[c].st = "df") =>
      \A i \in DOMAIN df_orders[c].rows :
        /\ Cardinality(JoinedFrom(c, df_orders[c].rows[i])) = Copies(c, df_orders[c].rows[i])
        /\ (result[c].st = "df" /\ ~RawInvalid(c, df_orders[c].rows[i])) =>
             /\ Cardinality({rec \in Records(c) : rec.idx \in JoinedFrom(c, df_orders[c].rows[i])})
                  = Copies(c, df_orders[c].rows[i])
             /\ \A rec \in Records(c) :
                  rec.idx \in JoinedFrom(c, df_orders[c].rows[i])
                    => rec.revenue = RawRevenue(c, df_orders[c].rows[i])

\* every channel has two records of revenue 100.00 (59.99 for Amazon) for
\* its first sample order, which has two fee rows, and one record for an
\* order without a fee row
C26_Witness ==
  \A c \in ChannelSet :
    /\ Merged(c) /\ result[c].st = "df"
    /\ \E i \in DOMAIN df_orders[c].rows :
         /\ Cardinality(FeeMatches(c, df_orders[c].rows[i])) = 2
         /\ Cardinality({rec \in Records(c) :
                          /\ rec.idx \in JoinedFrom(c, df_orders[c].rows[i])
                          /\ rec.revenue = IF c = "Amazon" THEN 5999 * (Scale \div 100)
                                            ELSE 100 * Scale}) = 2
    /\ \E i \in DOMAIN df_orders[c].rows :
         /\ FeeMatches(c, df_orders[c].rows[i]) = {}
         /\ Cardinality({rec \in Records(c) :
                          rec.idx \in JoinedFrom(c, df_orders[c].rows[i])}) = 1

\* the rows a finished loop over table t handed on, as a frame
Fetched(t) ==
  IF \E c \in ChannelSet : t = OrderTable(c)
  THEN df_orders[CHOOSE c \in ChannelSet : t = OrderTable(c)]
  ELSE df_fees[CHOOSE c \in ChannelSet : t = FeeTable(c)]

\* C27: a pagination loop that ends has collected exactly the rows of its
\* table, each once and in table order, also when their number is a
\* multiple of 1000; while it runs it holds the first rows of the table, as
\* many as its offset
C27_AllRowsOnceInOrder ==
  /\ \A t \in TableNames :
       (outcome[t] = "fetched" /\ tables[t] # <<>>) => Fetched(t).rows = tables[t]
  /\ pc = "page" =>
       /\ Len(all_data) = offset
       /\ all_data = SubSeq(tables[OrderTable(chan)], 1, offset)
  /\ pc = "fee_page" =>
       /\ Len(fee_all_data) = fee_offset
       /\ fee_all_data = SubSeq(tables[FeeTable(chan)], 1, fee_offset)

\* a table of 2000 rows was fetched whole, with a last empty page
C27_Witness ==
  \E t \in TableNames :
    /\ Len(tables[t]) = 2 * batch_size
    /\ outcome[t] = "fetched"
    /\ requests[t] = <<0, batch_size, 2 * batch_size>>
    /\ Len(Fetched(t).rows) = 2 * batch_size
    /\ Fetched(t).rows[batch_size] # Fetched(t).rows[batch_size + 1]

\* the fee fetch of channel c failed or found no rows
NoFeeData(c) ==
  \/ Unavailable(FeeTable(c))
  \/ outcome[FeeTable(c)] = "fetched" /\ tables[FeeTable(c)] = <<>>

\* the shipping_cost of raw row r of channel c by the rules without fee data
ShippingWithoutFees(c, r) ==
  CASE c = "Shopify" ->
         IF WeightOf(r["weight"]) < Scale THEN 7 * Scale
         ELSE IF WeightOf(r["weight"]) <= 5 * Scale THEN 12 * Scale
         ELSE 19 * Scale + Scale \div 2
    [] c = "Walmart" -> LineShippingOr0(r)
    [] OTHER -> FillNa0(Currency(r["shipping-price"]))

\* C28: when the order fetch of a channel gave rows and its fee fetch failed
\* or gave none, the transform gets the order rows as they are, every valid
\* one has its record, and shipping_cost and platform_fee follow the rules
\* for a frame without fee columns
C28_OrdersKeptWithoutFees ==
  \A c \in ChannelSet :
    (Merged(c) /\ NoFeeData(c)) =>
      /\ df_raw[c] = df_orders[c]
      /\ FeeColumns(c) \cap df_raw[c].cols = {}
      /\ result[c].st = "df" <=> \E i \in DOMAIN df_orders[c].rows :
                                     ~RawInvalid(c, df_orders[c].rows[i])
      /\ {rec.idx : rec \in Records(c)}
           = RowsWhere(df_orders[c], LAMBDA r : ~RawInvalid(c, r))
      /\ \A rec \in Records(c) :
           /\ rec.platform_fee = FallbackFee(c, rec.revenue)
           /\ (c = "Shopify" => ~NoUsableWeight(RawOf(c, rec)))
                => rec.shipping_cost = ShippingWithoutFees(c, RawOf(c, rec))

\* the fee fetch of a channel failed although its fee table has rows, and
\* the channel returned a record with the fallback fee
C28_Witness ==
  \E c \in ChannelSet :
    /\ Merged(c) /\ Unavailable(FeeTable(c)) /\ tables[FeeTable(c)] # <<>>
    /\ \E rec \in Records(c) :
         rec.platform_fee = FallbackFee(c, rec.revenue) /\ rec.platform_fee > 0

\* the fetch function of channel c is called in this step
Called(c) == pc = "client" /\ chan = c /\ <<pc, ci>>' # <<pc, ci>>

\* the step asks the data source: for a client, which it gets or not
SourceAsked == pc' = "page" \/ faults' # faults

\* the call of the fetch function of channel c is answered with the value
\* of its last completed call, and the data source is not asked
Stored(c) ==
  /\ ~SourceAsked
  /\ requests' = requests
  /\ \E done \in last_done[c] : result'[c] = done.value

\* the last call of the fetch function of channel c completed less than
\* 300 seconds ago
Recent(c) == \E done \in last_done[c] : now - done.at < 300

\* the statement of C24 as the claim has it: a call less than 300 seconds
\* after a completed call of the same channel returns the stored result
\* and does not ask the source; any other call asks the source
C24_StoredFor300Seconds ==
  [][\A c \in ChannelSet : Called(c) => IF Recent(c) THEN Stored(c) ELSE SourceAsked]_vars

\* C24: a call of a channel's fetch function less than 300 seconds after a
\* completed call of the same channel returns the stored result and does
\* not ask the source, unless the cache was cleared after that call, which
\* main() does on the first run of every session; a call after the entry
\* has expired or was cleared asks the source again
C24_StoredUnlessCleared ==
  [][\A c \in ChannelSet :
       Called(c) => IF Recent(c) /\ ~cleared_since[c] THEN Stored(c) ELSE SourceAsked]_vars

\* in the load of a second session, 299 seconds after the first, one
\* channel was answered from the cache with its records and another, stored
\* before the second session cleared the cache, from the source
C24_Witness ==
  /\ now = 299
  /\ \E s \in sessions : s # loader /\ data_loaded[s]
  /\ \E c, d \in ChannelSet :
       /\ served[c] = "cache" /\ Usable(c)
       /\ \E done \in last_done[c] : done.at = 0 /\ done.value = result[c]
       /\ served[d] = "source"
       /\ \E done \in last_done[d] : done.at = 299

\* the password the dashboard is configured with: the dashboard_password
\* of the secrets, or the built-in one
Configured == IF secrets # {} THEN secrets ELSE {<<"z", "e", "o", "f", "i", "l", "l", "2", "0", "2", "4">>}

\* what a session can do only after check_password() returned True
Entered(s) ==
  \/ cache_cleared[s] \/ data_loaded[s] \/ df_full[s] # NoneDF
  \/ fetch_calls[s] > 0 \/ loads[s] > 0
  \/ loader = s

\* C29: password_correct is True only in a session where the configured
\* password was entered; without it the session clears no cache, fetches and
\* loads nothing and has no df_full; after the correct entry the session
\* holds no password; the password it holds is an incorrect one, with
\* password_correct False until a retry: the button, which unsets it, or a
\* new entry
C29_PasswordGate ==
  /\ [](\A s \in sessions :
          /\ Validated(s) => authenticated_by[s] # {} /\ authenticated_by[s] \subseteq Configured
          /\ Entered(s) => Validated(s)
          /\ Validated(s) => password[s] = {}
          /\ password[s] # {} => /\ password[s] \cap Configured = {}
                                 /\ password_correct[s] \in {{FALSE}, {}})
  /\ [][\A s \in sessions :
          (password_correct[s] = {FALSE} /\ password_correct'[s] # {FALSE})
            => \/ password_correct'[s] = {} /\ password'[s] = password[s]
               \/ password'[s] # password[s]]_vars

\* with a dashboard_password in the secrets, one session entered it and has
\* its data while the other entered the built-in password, was refused and
\* has nothing
C29_Witness ==
  /\ secrets = {<<"s", "3", "c", "r", "e", "t">>}
  /\ \E s, t \in sessions :
       /\ authenticated_by[s] = {<<"s", "3", "c", "r", "e", "t">>} /\ Validated(s) /\ data_loaded[s]
       /\ password[s] = {}
       /\ password_correct[t] = {FALSE} /\ password[t] = {<<"z", "e", "o", "f", "i", "l", "l", "2", "0", "2", "4">>}
       /\ ~Entered(t)

\* C30: a session stores df_full once and calls fetch_all_order_data at
\* most once; once it has data_loaded, no step changes its df_full, calls
\* the fetch for it or takes data_loaded away; the df_full it stored is not
\* empty
C30_LoadedOnce ==
  /\ [](\A s \in sessions :
          /\ loads[s] <= 1 /\ fetch_calls[s] <= 1
          /\ data_loaded[s] =>
               /\ loads[s] = 1
               /\ fetch_calls[s] = IF SUPABASE_AVAILABLE THEN 1 ELSE 0
               /\ df_full[s].st = "df" /\ ~Empty(df_full[s])
          /\ ~data_loaded[s] => df_full[s] = NoneDF)
  /\ [][\A s \in sessions :
          data_loaded[s] =>
            /\ data_loaded'[s]
            /\ df_full'[s] = df_full[s]
            /\ fetch_calls'[s] = fetch_calls[s]
            /\ loads'[s] = loads[s]]_vars

\* both sessions have their data after one call of fetch_all_order_data
\* each, and the frames they hold differ
C30_Witness ==
  /\ sessions = SessionIds
  /\ \A s \in sessions : data_loaded[s] /\ loads[s] = 1 /\ fetch_calls[s] = 1
  /\ \E s, t \in sessions :
       /\ df_full[s] # generate_sample_data
       /\ df_full[t] # generate_sample_data
       /\ df_full[s] # df_full[t]

====
